---- MODULE Spec2Model ----
(***************************************************************************)
(* Model of the Claude <-> v1internal transcoder of Antigravity2Api.        *)
(*                                                                         *)
(* Response side (src/unnamed/part_003): StreamingState, PartProcessor,    *)
(* processSSELine, emitWebSearchBlocks and NonStreamingProcessor.          *)
(* Request side (src/src/transform/claude/ClaudeRequestIn.js):             *)
(* transformClaudeRequestIn, per message.                                  *)
(*                                                                         *)
(* Conventions.  A thoughtSignature is a natural number; 0 stands for the  *)
(* JavaScript falsy values (undefined, null, "") which the code treats     *)
(* alike.  A text is a sequence of characters (naturals), << >> being the  *)
(* empty string, so that concatenation and byte equality are \o and =.     *)
(* The backend issues fresh opaque values: the n-th part of a response     *)
(* carries the text <<n>>, the signature n and the call id n when its      *)
(* shape says it has one.                                                  *)
(***************************************************************************)
EXTENDS Naturals, Integers, Sequences, FiniteSets, TLC

VARIABLES
    mode,                   \* which exchange is modelled: "stream", "search", "json", "request"
    state,                  \* the StreamingState object, controller queue included
    inParts,                \* ghost: backend parts received so far, in arrival order
    nLines,                 \* ghost: number of SSE lines received so far
    lastLine,               \* ghost: the last SSE line received: "none", "done",
                            \* "bad", "chunk", or "finish" (a chunk with finishReason)
    toolThoughtSignatures,  \* the ledger tool_use.id -> thoughtSignature
    nsResult,               \* the NonStreamingProcessor's message, or NoResult
    reqIn,                  \* the message handed to transformClaudeRequestIn
    reqOut,                 \* the backend parts it produced for that message
    parser,                 \* the bridge tokenizer: its names, buffer and events
    switch                  \* one /v1/messages exchange under the substitute-model retry

vars == <<mode, state, inParts, nLines, lastLine, toolThoughtSignatures, nsResult, reqIn,
          reqOut, parser, switch>>

(***************************************************************************)
(* Bounds                                                                  *)
(***************************************************************************)
MaxLines == 3        \* SSE lines per backend stream
MaxParts == 3        \* backend parts per non-streaming response
MaxItems == 3        \* content items per inbound message

(***************************************************************************)
(* StreamingState block type constants                                     *)
(***************************************************************************)
BLOCK_NONE == 0
BLOCK_TEXT == 1
BLOCK_THINKING == 2
BLOCK_FUNCTION == 3

NoSig == 0
EmptyText == << >>

(***************************************************************************)
(* Outbound SSE events.  One record shape for all of them:                 *)
(*   type    the event name                                                *)
(*   index   the content block index, -1 for message_* events              *)
(*   kind    content_block.type, delta.type or the stop_reason             *)
(*   text    the text / thinking carried                                   *)
(*   sig     the signature carried                                         *)
(*   tool    [id, name] of the tool_use carried, NoTool otherwise          *)
(***************************************************************************)
NoName == << >>
NoTool == [id |-> 0, name |-> NoName]
Tool(id, name) == [id |-> id, name |-> name]

Ev(type, index, kind, text, sig, tool) ==
    [type |-> type, index |-> index, kind |-> kind, text |-> text, sig |-> sig, tool |-> tool]

\* content_block as passed to startBlock
ContentBlock(kind, text, sig, tool) == [kind |-> kind, text |-> text, sig |-> sig, tool |-> tool]

emit(s, e) == [s EXCEPT !.controller = Append(@, e)]

emitMessageStart(s) ==
    IF s.messageStartSent THEN s
    ELSE [emit(s, Ev("message_start", -1, "message", EmptyText, NoSig, NoTool))
            EXCEPT !.messageStartSent = TRUE]

emitDelta(s, deltaType, text, sig) ==
    emit(s, Ev("content_block_delta", s.blockIndex, deltaType, text, sig, NoTool))

\* emit("content_block_start", { index: this.blockIndex, content_block })
emitBlockStart(s, cb) ==
    emit(s, Ev("content_block_start", s.blockIndex, cb.kind, cb.text, cb.sig, cb.tool))

\* emit("content_block_stop", { index: this.blockIndex }); this.blockIndex++
emitBlockStop(s) ==
    [emit(s, Ev("content_block_stop", s.blockIndex, "stop", EmptyText, NoSig, NoTool))
       EXCEPT !.blockIndex = @ + 1]

\* endBlock: a thinking block first sends the signature stored for it
flushPendingSignature(s) ==
    IF s.blockType = BLOCK_THINKING /\ s.pending # NoSig
    THEN [emitDelta(s, "signature_delta", EmptyText, s.pending) EXCEPT !.pending = NoSig]
    ELSE s

endBlock(s) ==
    IF s.blockType = BLOCK_NONE THEN s
    ELSE [emitBlockStop(flushPendingSignature(s)) EXCEPT !.blockType = BLOCK_NONE]

\* A startBlock that leaves the block before it open.
startBlockWithoutEnd(s, type, cb) ==
    [emitBlockStart(s, cb) EXCEPT !.blockType = type]

startBlock(s, type, cb) ==
    [emitBlockStart(IF s.blockType # BLOCK_NONE THEN endBlock(s) ELSE s, cb)
       EXCEPT !.blockType = type]

ThinkingBlock == ContentBlock("thinking", EmptyText, NoSig, NoTool)
TextBlock == ContentBlock("text", EmptyText, NoSig, NoTool)

\* The empty thinking block that carries a signature received on a text part,
\* written with startBlock / endBlock (PartProcessor.process, three places).
carrierBlock(s, sig) ==
    endBlock(emitDelta(emitDelta(startBlock(s, BLOCK_THINKING, ThinkingBlock),
                                 "thinking_delta", EmptyText, NoSig),
                       "signature_delta", EmptyText, sig))

\* The same block written with raw emit calls and blockIndex++ (emitFinish and
\* the signed non-empty text branch): blockType is not touched.
rawCarrierBlock(s, sig) ==
    emitBlockStop(emitDelta(emitDelta(emitBlockStart(s, ThinkingBlock),
                                      "thinking_delta", EmptyText, NoSig),
                            "signature_delta", EmptyText, sig))

StopReason(usedTool, finishReason) ==
    IF usedTool THEN "tool_use"
    ELSE IF finishReason = "MAX_TOKENS" THEN "max_tokens"
    ELSE "end_turn"

\* An emitMessageStop without the messageStopSent guard.
emitMessageStopAgain(s) ==
    [emit(s, Ev("message_stop", -1, "message_stop", EmptyText, NoSig, NoTool))
       EXCEPT !.messageStopSent = TRUE]

emitMessageStop(s) ==
    IF ~s.messageStopSent
    THEN [emit(s, Ev("message_stop", -1, "message_stop", EmptyText, NoSig, NoTool))
            EXCEPT !.messageStopSent = TRUE]
    ELSE s

\* emitFinish: the trailingSignature goes out in its own block, or is dropped
finishTrailing(s) ==
    IF s.trailingSignature # NoSig /\ s.hasThinking
    THEN [rawCarrierBlock(s, s.trailingSignature) EXCEPT !.trailingSignature = NoSig]
    ELSE IF s.trailingSignature # NoSig
         THEN [s EXCEPT !.trailingSignature = NoSig]
         ELSE s

emitMessageDelta(s, finishReason) ==
    emit(s, Ev("message_delta", -1, StopReason(s.usedTool, finishReason),
               EmptyText, NoSig, NoTool))

emitFinish(s, finishReason) ==
    emitMessageStop(emitMessageDelta(finishTrailing(endBlock(s)), finishReason))

(***************************************************************************)
(* The ledger toolThoughtSignatures (a JavaScript Map)                     *)
(***************************************************************************)
EmptyLedger == << >>

\* A rememberToolThoughtSignature that stores nothing.
forgetToolThoughtSignature(ledger, toolUseId, thoughtSignature) == ledger

rememberToolThoughtSignature(ledger, toolUseId, thoughtSignature) ==
    IF toolUseId = 0 \/ thoughtSignature = NoSig THEN ledger
    ELSE (toolUseId :> thoughtSignature) @@ ledger

getToolThoughtSignature(ledger, toolUseId) ==
    IF toolUseId # 0 /\ toolUseId \in DOMAIN ledger THEN ledger[toolUseId] ELSE NoSig

\* crypto.randomBytes: a value no backend id and no earlier call has.
makeToolUseId(n) == 100 + n

(***************************************************************************)
(* PartProcessor.  A backend part is                                       *)
(*   [kind |-> "text" | "fc", thought, text, sig, id, name, args]          *)
(* with id = 0 for a functionCall without id and args = << >> for one      *)
(* without args.  The working record s is the StreamingState plus the      *)
(* field ledger (the module-level map the processor writes to).            *)
(***************************************************************************)
processThinking(s, text) ==
    emitDelta(IF s.blockType = BLOCK_THINKING THEN s
              ELSE startBlock(s, BLOCK_THINKING, ThinkingBlock),
              "thinking_delta", text, NoSig)

processText(s, text) ==
    IF text = EmptyText THEN s
    ELSE emitDelta(IF s.blockType = BLOCK_TEXT THEN s
                   ELSE startBlock(s, BLOCK_TEXT, TextBlock),
                   "text_delta", text, NoSig)

emitArgs(s, fc) ==
    IF fc.args # EmptyText THEN emitDelta(s, "input_json_delta", fc.args, NoSig) ELSE s

toolUseBlock(s, fc, sigToUse, toolId) ==
    emitArgs(startBlock(IF sigToUse # NoSig
                        THEN [s EXCEPT !.ledger =
                                 rememberToolThoughtSignature(@, toolId, sigToUse)]
                        ELSE s,
                        BLOCK_FUNCTION,
                        ContentBlock("tool_use", EmptyText, sigToUse, Tool(toolId, fc.name))),
             fc)

processFunctionCall(s, fc, sigToUse) ==
    [toolUseBlock(s, fc, sigToUse,
                  IF fc.id # 0 THEN fc.id ELSE makeToolUseId(Len(s.controller)))
       EXCEPT !.usedTool = TRUE]

\* A flushTrailing that does not look at hasThinking.
flushTrailingAlways(s) ==
    IF s.trailingSignature # NoSig
    THEN [carrierBlock(s, s.trailingSignature) EXCEPT !.trailingSignature = NoSig]
    ELSE s

\* "if (this.state.trailingSignature) { if (hasThinking) {...carrier...} = null }"
flushTrailing(s) ==
    IF s.trailingSignature # NoSig
    THEN [(IF s.hasThinking THEN carrierBlock(s, s.trailingSignature) ELSE s)
            EXCEPT !.trailingSignature = NoSig]
    ELSE s

\* non-empty text with a signature, after thinking: text block, then carrier
signedTextBlocks(s, part) ==
    rawCarrierBlock(
        endBlock(emitDelta(startBlock(endBlock(s), BLOCK_TEXT, TextBlock),
                           "text_delta", part.text, NoSig)),
        part.sig)

processPlainText(s, part) ==
    IF part.sig # NoSig
    THEN IF ~s.hasThinking THEN processText(s, part.text) ELSE signedTextBlocks(s, part)
    ELSE processText(s, part.text)

storeSignature(s, sig) == IF sig # NoSig THEN [s EXCEPT !.pending = sig] ELSE s

processThought(s, part) ==
    storeSignature(processThinking(flushTrailing(s), part.text), part.sig)

process(s, part) ==
    IF part.kind = "fc"
    THEN processFunctionCall(flushTrailing(s), part, part.sig)
    ELSE IF ~part.thought /\ part.text = EmptyText
    THEN IF part.sig # NoSig THEN [s EXCEPT !.trailingSignature = part.sig] ELSE s
    ELSE IF part.thought
    THEN processThought([s EXCEPT !.hasThinking = TRUE], part)
    ELSE processPlainText(flushTrailing(s), part)

RECURSIVE processAll(_, _)
processAll(s, parts) ==
    IF parts = << >> THEN s ELSE processAll(process(s, Head(parts)), Tail(parts))

(***************************************************************************)
(* Built-in search (grounding).  A URL is a natural: RedirectUrl is a      *)
(* vertexaisearch redirect URL, FinalUrl what it resolves to, 0 a chunk    *)
(* without uri and title.  A support is [cited, idx]: whether it has a     *)
(* segment text and the (1-based) result it cites.                         *)
(***************************************************************************)
RedirectUrl == 7
FinalUrl == 8
SrvToolUseId == 500      \* makeSrvToolUseId()
WebSearchName == <<"web_search">>

toWebSearchResults(groundingChunks) == SelectSeq(groundingChunks, LAMBDA u : u # 0)

\* fetchFinalUrl either follows the redirect or, on timeout / network error,
\* keeps the URL: resolved is the outcome.
resolveWebSearchRedirectUrls(s, resolved) ==
    [s EXCEPT !.webSearch.results =
        [i \in DOMAIN @ |-> IF @[i] = RedirectUrl /\ resolved THEN FinalUrl ELSE @[i]]]

\* the cited URL, or 0 for null
buildCitationFromSupport(results, support) ==
    IF ~support.cited THEN 0
    ELSE IF support.idx \notin DOMAIN results THEN 0
    ELSE results[support.idx]

citationBlock(s, citation) ==
    IF citation = 0 THEN s
    ELSE endBlock(emitDelta(
             startBlock(s, BLOCK_TEXT, ContentBlock("citation", EmptyText, NoSig, NoTool)),
             "citations_delta", <<citation>>, NoSig))

RECURSIVE emitCitations(_, _, _)
emitCitations(s, results, supports) ==
    IF supports = << >> THEN s
    ELSE emitCitations(citationBlock(s, buildCitationFromSupport(results, Head(supports))),
                       results, Tail(supports))

RECURSIVE emitBuffered(_, _)
emitBuffered(s, texts) ==
    IF texts = << >> THEN s
    ELSE emitBuffered(IF Head(texts) = EmptyText THEN s
                      ELSE emitDelta(s, "text_delta", Head(texts), NoSig),
                      Tail(texts))

\* "index 0 is thinking, even if empty"
closeThinking(s) ==
    IF s.blockIndex = 0 /\ s.blockType = BLOCK_NONE
    THEN endBlock(emitDelta(startBlock(s, BLOCK_THINKING, ThinkingBlock),
                            "thinking_delta", EmptyText, NoSig))
    ELSE IF s.blockType = BLOCK_THINKING
         THEN endBlock(emitDelta(s, "thinking_delta", EmptyText, NoSig))
         ELSE endBlock(s)

fixToolUseId(s) ==
    [s EXCEPT !.webSearch.toolUseId = IF @ # 0 THEN @ ELSE SrvToolUseId]

serverToolUseBlock(s) ==
    endBlock(emitDelta(
        startBlock(s, BLOCK_TEXT,
                   ContentBlock("server_tool_use", EmptyText, NoSig,
                                Tool(s.webSearch.toolUseId, WebSearchName))),
        "input_json_delta", <<s.webSearch.query>>, NoSig))

webSearchToolResultBlock(s) ==
    endBlock(startBlock(s, BLOCK_TEXT,
                        ContentBlock("web_search_tool_result", s.webSearch.results, NoSig,
                                     Tool(s.webSearch.toolUseId, WebSearchName))))

citationBlocks(s) == emitCitations(s, s.webSearch.results, s.webSearch.supports)

bufferedTextBlock(s) ==
    endBlock(emitBuffered(startBlock(s, BLOCK_TEXT, TextBlock), s.webSearch.bufferedTextParts))

\* An emitWebSearchBlocks that sends the answer text before the citations.
emitWebSearchBlocksTextFirst(s) ==
    citationBlocks(bufferedTextBlock(webSearchToolResultBlock(serverToolUseBlock(
        fixToolUseId(closeThinking(s))))))

emitWebSearchBlocks(s) ==
    bufferedTextBlock(citationBlocks(webSearchToolResultBlock(serverToolUseBlock(
        fixToolUseId(closeThinking(s))))))

\* web_search mode: thinking goes out live, other text is buffered, parts
\* without text are skipped.
RECURSIVE processWebSearchParts(_, _)
processWebSearchParts(s, parts) ==
    IF parts = << >> THEN s
    ELSE processWebSearchParts(
             IF Head(parts).kind # "text" THEN s
             ELSE IF Head(parts).thought THEN process(s, Head(parts))
             ELSE [s EXCEPT !.webSearch.bufferedTextParts = Append(@, Head(parts).text)],
             Tail(parts))

updateGrounding(s, g) ==
    [s EXCEPT !.webSearch.query = IF g.query # 0 THEN g.query ELSE @,
              !.webSearch.results = IF g.hasChunks THEN toWebSearchResults(g.chunks) ELSE @,
              !.webSearch.supports = IF g.hasSupports THEN g.supports ELSE @]

(***************************************************************************)
(* processSSELine.  A line is [kind |-> "done" | "bad" | "chunk", parts,   *)
(* grounding, finishReason]; "bad" is a data line whose JSON.parse throws. *)
(***************************************************************************)
enterWebSearchMode(s, chunk) ==
    IF ~s.webSearchMode /\ chunk.grounding.has
    THEN [s EXCEPT !.webSearchMode = TRUE, !.webSearch.toolUseId = SrvToolUseId]
    ELSE s

processParts(s, chunk) ==
    IF ~s.webSearchMode
    THEN processAll(s, chunk.parts)
    ELSE updateGrounding(processWebSearchParts(s, chunk.parts), chunk.grounding)

checkFinish(s, chunk, resolved) ==
    IF chunk.finishReason = "" THEN s
    ELSE IF ~s.webSearchMode THEN emitFinish(s, chunk.finishReason)
    ELSE emitFinish(emitWebSearchBlocks(resolveWebSearchRedirectUrls(s, resolved)),
                    chunk.finishReason)

processChunk(s, chunk, resolved) ==
    checkFinish(processParts(enterWebSearchMode(emitMessageStart(s), chunk), chunk),
                chunk, resolved)

\* A processSSELine that ends the message at a line it cannot parse.
processSSELineAborting(s, line, resolved) ==
    IF line.kind = "done" \/ line.kind = "bad" THEN emitMessageStop(s)
    ELSE processChunk(s, line, resolved)

processSSELine(s, line, resolved) ==
    IF line.kind = "done" THEN emitMessageStop(s)
    ELSE IF line.kind = "bad" THEN s
    ELSE processChunk(s, line, resolved)

(***************************************************************************)
(* NonStreamingProcessor.  An outbound content block is                    *)
(*   [type, text, sig, tool, input]                                        *)
(* (text: the text or thinking; input: the tool_use input).                *)
(***************************************************************************)
Block(type, text, sig, tool, input) ==
    [type |-> type, text |-> text, sig |-> sig, tool |-> tool, input |-> input]

NewNonStreamingProcessor(ledger) ==
    [contentBlocks |-> << >>, textBuilder |-> EmptyText, thinkingBuilder |-> EmptyText,
     hasToolCall |-> FALSE, hasThinking |-> FALSE,
     thinkingSignature |-> NoSig, trailingSignature |-> NoSig, ledger |-> ledger]

flushText(p) ==
    IF p.textBuilder = EmptyText THEN p
    ELSE [p EXCEPT !.contentBlocks = Append(@, Block("text", p.textBuilder, NoSig, NoTool, EmptyText)),
                   !.textBuilder = EmptyText]

flushThinking(p) ==
    IF p.thinkingBuilder = EmptyText /\ p.thinkingSignature = NoSig THEN p
    ELSE [p EXCEPT !.contentBlocks =
                      Append(@, Block("thinking", p.thinkingBuilder, p.thinkingSignature,
                                      NoTool, EmptyText)),
                   !.thinkingSignature = NoSig,
                   !.thinkingBuilder = EmptyText]

\* push of { type: "thinking", thinking: "", signature }
pushCarrier(p, sig) ==
    [p EXCEPT !.contentBlocks = Append(@, Block("thinking", EmptyText, sig, NoTool, EmptyText))]

\* "if (this.trailingSignature) { if (this.hasThinking) push(...); = null }"
nsFlushTrailing(p) ==
    IF p.trailingSignature # NoSig
    THEN [(IF p.hasThinking THEN pushCarrier(p, p.trailingSignature) ELSE p)
            EXCEPT !.trailingSignature = NoSig]
    ELSE p

pushToolUse(p, part, toolId) ==
    [p EXCEPT !.hasToolCall = TRUE,
              !.ledger = IF part.sig # NoSig
                         THEN rememberToolThoughtSignature(@, toolId, part.sig) ELSE @,
              !.contentBlocks =
                  Append(@, Block("tool_use", EmptyText, part.sig, Tool(toolId, part.name),
                                  part.args))]

nsToolUse(p, part) ==
    pushToolUse(p, part, IF part.id # 0 THEN part.id ELSE makeToolUseId(Len(p.contentBlocks)))

nsFunctionCall(p, part) == nsToolUse(nsFlushTrailing(flushText(flushThinking(p))), part)

\* a trailingSignature goes out before the thinking that follows it
nsTrailingBeforeThought(p) ==
    IF p.trailingSignature # NoSig THEN nsFlushTrailing(flushThinking(p)) ELSE p

addThinking(p, part) ==
    [p EXCEPT !.thinkingBuilder = @ \o part.text,
              !.thinkingSignature = IF part.sig # NoSig THEN part.sig ELSE @]

nsThought(p, part) == addThinking(nsTrailingBeforeThought(flushText(p)), part)

nsTrailingBeforeText(p) ==
    IF p.trailingSignature # NoSig THEN nsFlushTrailing(flushText(p)) ELSE p

addText(p, part) == [p EXCEPT !.textBuilder = @ \o part.text]

nsSignedText(p, part) ==
    IF part.sig # NoSig /\ p.hasThinking THEN pushCarrier(flushText(p), part.sig) ELSE p

nsText(p, part) ==
    IF part.text = EmptyText
    THEN IF part.sig # NoSig THEN [p EXCEPT !.trailingSignature = part.sig] ELSE p
    ELSE nsSignedText(addText(nsTrailingBeforeText(flushThinking(p)), part), part)

processPart(p, part) ==
    IF part.kind = "fc" THEN nsFunctionCall(p, part)
    ELSE IF part.thought THEN nsThought(p, part)
    ELSE nsText(p, part)

RECURSIVE nsProcessAll(_, _)
nsProcessAll(p, parts) ==
    IF parts = << >> THEN p ELSE nsProcessAll(processPart(p, Head(parts)), Tail(parts))

nsFinishTrailing(p) ==
    IF p.trailingSignature # NoSig /\ p.hasThinking
    THEN [pushCarrier(p, p.trailingSignature) EXCEPT !.trailingSignature = NoSig]
    ELSE IF p.trailingSignature # NoSig
         THEN [p EXCEPT !.trailingSignature = NoSig]
         ELSE p

buildResponse(p, finishReason) ==
    [done |-> TRUE, content |-> p.contentBlocks,
     stop_reason |-> StopReason(p.hasToolCall, finishReason), ledger |-> p.ledger]

\* NonStreamingProcessor.process
nsProcess(ledger, parts, finishReason) ==
    buildResponse(
        nsFinishTrailing(flushText(flushThinking(
            nsProcessAll([NewNonStreamingProcessor(ledger) EXCEPT
                             !.hasThinking = \E i \in DOMAIN parts : parts[i].thought],
                         parts)))),
        finishReason)

(***************************************************************************)
(* Request transcoder: transformClaudeRequestIn, the contents loop.        *)
(*                                                                         *)
(* A content item is [type, text, sig, tool, images]:                      *)
(*   text / thinking / redacted_thinking   text is the text or data        *)
(*   thinking, tool_use                    sig is the signature            *)
(*   tool_use                              tool is [id, name], text input  *)
(*   tool_result                           tool.id is tool_use_id, text    *)
(*                                         the content, images the number  *)
(*                                         of image blocks in it           *)
(*   image                                 text is the data, images is 1   *)
(*                                         for a base64 source, else 0     *)
(* A message is [role, isString, text, content]: content is a list of      *)
(* items, or (isString) the string text.  A backend part is                *)
(*   [kind |-> "text" | "functionCall" | "functionResponse" | "inlineData",*)
(*    text, thought, thoughtSignature, tool, xml]                          *)
(* where xml marks a text part that holds bridge markup.  The character 0  *)
(* is white space.                                                         *)
(***************************************************************************)
Item(type, text, sig, tool, images) ==
    [type |-> type, text |-> text, sig |-> sig, tool |-> tool, images |-> images]

RPart(kind, text, thought, sig, tool, xml) ==
    [kind |-> kind, text |-> text, thought |-> thought, thoughtSignature |-> sig,
     tool |-> tool, xml |-> xml]

NoContentText == <<40, 41>>     \* the text "(no content)"

isMcpToolName(name) == name # NoName /\ name[1] = "mcp__"
IdAsName == <<"toolu_">>

\* text.replace(/\s+/g, "")
stripWhitespace(text) == SelectSeq(text, LAMBDA c : c # 0)

deleteToolThoughtSignature(ledger, toolUseId) ==
    [k \in DOMAIN ledger \ {toolUseId} |-> ledger[k]]

\* The per-message working record t:
\*   parts, sawNonThinkingContent, previousWasToolResult, pendingThoughtSignature
\* and, carried from message to message,
\*   lastUserTaskTextNormalized, toolIdToName, ledger.
\* A textItem that only skips empty text.
textItemKeepsPlaceholder(t, item, role, forward, hasFunctionCall) ==
    IF item.text = EmptyText THEN t
    ELSE [t EXCEPT !.parts = Append(@, RPart("text", item.text, FALSE, NoSig, NoTool, "")),
                   !.sawNonThinkingContent = TRUE,
                   !.previousWasToolResult = FALSE]

\* A textItem that never takes a text for an echo of the task.
textItemKeepsEcho(t, item, role, forward, hasFunctionCall) ==
    IF item.text = EmptyText \/ item.text = NoContentText THEN t
    ELSE [t EXCEPT !.parts = Append(@, RPart("text", item.text, FALSE, NoSig, NoTool, "")),
                   !.sawNonThinkingContent = TRUE,
                   !.previousWasToolResult = FALSE,
                   !.lastUserTaskTextNormalized =
                       IF role = "user" THEN stripWhitespace(item.text) ELSE @]

textItem(t, item, role, forward, hasFunctionCall) ==
    IF item.text = EmptyText \/ item.text = NoContentText THEN t
    ELSE IF role = "user" /\ t.previousWasToolResult
            /\ t.lastUserTaskTextNormalized # EmptyText
            /\ stripWhitespace(item.text) = t.lastUserTaskTextNormalized
    THEN [t EXCEPT !.previousWasToolResult = FALSE]
    ELSE LET attach == t.pendingThoughtSignature # NoSig /\ forward /\ role = "model"
                       /\ ~hasFunctionCall
             part == RPart("text", item.text, FALSE,
                           IF attach THEN t.pendingThoughtSignature ELSE NoSig, NoTool, "")
         IN  [t EXCEPT !.parts = Append(@, part),
                       !.pendingThoughtSignature = IF attach THEN NoSig ELSE @,
                       !.sawNonThinkingContent = TRUE,
                       !.previousWasToolResult = FALSE,
                       !.lastUserTaskTextNormalized =
                           IF role = "user" THEN stripWhitespace(item.text) ELSE @]

\* A thinkingItem that does not look at sawNonThinkingContent.
thinkingItemAnywhere(t, item, forward) ==
    IF item.text = EmptyText
    THEN IF item.sig # NoSig /\ forward
         THEN [t EXCEPT !.pendingThoughtSignature = item.sig]
         ELSE t
    ELSE [t EXCEPT !.pendingThoughtSignature = IF item.sig # NoSig /\ forward THEN item.sig ELSE @,
                   !.parts = Append(@, RPart("text", item.text, forward, NoSig, NoTool, "")),
                   !.sawNonThinkingContent = IF forward THEN @ ELSE TRUE,
                   !.previousWasToolResult = FALSE]

thinkingItem(t, item, forward) ==
    IF item.text = EmptyText
    THEN IF item.sig # NoSig /\ forward
         THEN [t EXCEPT !.pendingThoughtSignature = item.sig]
         ELSE t
    ELSE IF t.sawNonThinkingContent THEN t
    ELSE LET t1 == IF item.sig # NoSig /\ forward
                   THEN [t EXCEPT !.pendingThoughtSignature = item.sig]
                   ELSE t
         IN  IF forward
             THEN [t1 EXCEPT !.parts = Append(@, RPart("text", item.text, TRUE, NoSig, NoTool, "")),
                             !.previousWasToolResult = FALSE]
             ELSE [t1 EXCEPT !.parts = Append(@, RPart("text", item.text, FALSE, NoSig, NoTool, "")),
                             !.sawNonThinkingContent = TRUE,
                             !.previousWasToolResult = FALSE]

redactedThinkingItem(t, item) ==
    IF item.text = EmptyText \/ t.sawNonThinkingContent THEN t
    ELSE [t EXCEPT !.parts = Append(@, RPart("text", item.text, FALSE, NoSig, NoTool, "")),
                   !.sawNonThinkingContent = TRUE,
                   !.previousWasToolResult = FALSE]

\* item.images = 1 stands for source.type === "base64"
imageItem(t, item) ==
    IF item.images = 1
    THEN [t EXCEPT !.parts = Append(@, RPart("inlineData", item.text, FALSE, NoSig, NoTool, "")),
                   !.sawNonThinkingContent = TRUE,
                   !.previousWasToolResult = FALSE]
    ELSE [t EXCEPT !.previousWasToolResult = FALSE]

recordToolName(t, item) ==
    IF item.tool.id # 0 /\ item.tool.name # NoName
    THEN [t EXCEPT !.toolIdToName = (item.tool.id :> item.tool.name) @@ @]
    ELSE t

\* tool_use of a bridged tool: serialized as markup text
mcpToolUseItem(t, item, forward) ==
    LET t1 == recordToolName(t, item)
        pendingSig == IF forward THEN t1.pendingThoughtSignature ELSE NoSig
        t2 == IF item.tool.id # 0 /\ (item.sig # NoSig \/ pendingSig # NoSig)
              THEN [t1 EXCEPT !.ledger = deleteToolThoughtSignature(@, item.tool.id)]
              ELSE t1
        sig == IF item.sig # NoSig /\ forward THEN item.sig
               ELSE IF pendingSig # NoSig /\ forward THEN pendingSig
               ELSE NoSig
    IN  [t2 EXCEPT !.pendingThoughtSignature = IF pendingSig # NoSig THEN NoSig ELSE @,
                   !.parts = Append(@, RPart("text", item.text, FALSE, sig, item.tool, "call")),
                   !.sawNonThinkingContent = TRUE,
                   !.previousWasToolResult = FALSE]

\* A toolUseItem that deletes the ledger entry only for a token on the item
\* itself.
toolUseItemKeepingEntry(t, item, forward) ==
    LET t1 == recordToolName(t, item)
        t2 == IF item.sig # NoSig
              THEN [t1 EXCEPT !.ledger = deleteToolThoughtSignature(@, item.tool.id)]
              ELSE t1
        pendingSig == IF forward THEN t2.pendingThoughtSignature ELSE NoSig
        sig == IF item.sig # NoSig THEN item.sig
               ELSE IF pendingSig # NoSig THEN pendingSig
               ELSE getToolThoughtSignature(t2.ledger, item.tool.id)
    IN  [t2 EXCEPT !.pendingThoughtSignature = IF pendingSig # NoSig THEN NoSig ELSE @,
                   !.parts = Append(@, RPart("functionCall", item.text, FALSE,
                                             IF sig # NoSig /\ forward THEN sig ELSE NoSig,
                                             item.tool, "")),
                   !.sawNonThinkingContent = TRUE,
                   !.previousWasToolResult = FALSE]

toolUseItem(t, item, forward) ==
    LET t1 == recordToolName(t, item)
        t2 == IF item.sig # NoSig
              THEN [t1 EXCEPT !.ledger = deleteToolThoughtSignature(@, item.tool.id)]
              ELSE t1
        pendingSig == IF forward THEN t2.pendingThoughtSignature ELSE NoSig
        t3 == IF item.sig = NoSig /\ pendingSig # NoSig /\ item.tool.id # 0
              THEN [t2 EXCEPT !.ledger = deleteToolThoughtSignature(@, item.tool.id)]
              ELSE t2
        sig == IF item.sig # NoSig THEN item.sig
               ELSE IF pendingSig # NoSig THEN pendingSig
               ELSE getToolThoughtSignature(t3.ledger, item.tool.id)
    IN  [t3 EXCEPT !.pendingThoughtSignature = IF pendingSig # NoSig THEN NoSig ELSE @,
                   !.parts = Append(@, RPart("functionCall", item.text, FALSE,
                                             IF sig # NoSig /\ forward THEN sig ELSE NoSig,
                                             item.tool, "")),
                   !.sawNonThinkingContent = TRUE,
                   !.previousWasToolResult = FALSE]

inlineParts(n) == [i \in 1..n |-> RPart("inlineData", EmptyText, FALSE, NoSig, NoTool, "")]

toolResultItem(t, item, mcpXmlEnabled) ==
    LET known == item.tool.id \in DOMAIN t.toolIdToName
        \* toolIdToName.get(id) || id: an unknown id is used as the name
        funcName == IF known THEN t.toolIdToName[item.tool.id] ELSE IdAsName
        part == IF mcpXmlEnabled /\ known /\ isMcpToolName(funcName)
                THEN RPart("text", item.text, FALSE, NoSig, Tool(item.tool.id, funcName), "result")
                ELSE IF mcpXmlEnabled /\ ~known
                THEN RPart("text", item.text, FALSE, NoSig, Tool(item.tool.id, NoName), "result")
                ELSE RPart("functionResponse", item.text, FALSE, NoSig,
                           Tool(item.tool.id, funcName), "")
    IN  [t EXCEPT !.parts = Append(@, part) \o inlineParts(item.images),
                  !.sawNonThinkingContent = TRUE,
                  !.previousWasToolResult = TRUE]

transformItem(t, item, role, forward, mcpXmlEnabled, hasFunctionCall) ==
    CASE item.type = "text" -> textItem(t, item, role, forward, hasFunctionCall)
      [] item.type = "thinking" -> thinkingItem(t, item, forward)
      [] item.type = "redacted_thinking" -> redactedThinkingItem(t, item)
      [] item.type = "image" -> imageItem(t, item)
      [] item.type = "tool_use" ->
            IF mcpXmlEnabled /\ isMcpToolName(item.tool.name)
            THEN mcpToolUseItem(t, item, forward)
            ELSE toolUseItem(t, item, forward)
      [] item.type = "tool_result" -> toolResultItem(t, item, mcpXmlEnabled)
      [] OTHER -> t

RECURSIVE transformItems(_, _, _, _, _, _)
transformItems(t, items, role, forward, mcpXmlEnabled, hasFunctionCall) ==
    IF items = << >> THEN t
    ELSE transformItems(transformItem(t, Head(items), role, forward, mcpXmlEnabled, hasFunctionCall),
                        Tail(items), role, forward, mcpXmlEnabled, hasFunctionCall)

\* The last part that can still take the pending signature, 0 if none.
RECURSIVE lastCarrier(_, _)
lastCarrier(parts, i) ==
    IF i = 0 THEN 0
    ELSE LET p == parts[i]
         IN  IF p.thoughtSignature # NoSig THEN lastCarrier(parts, i - 1)
             ELSE IF p.kind = "functionCall" THEN i
             ELSE IF p.kind = "text" /\ ~p.thought /\ p.text # EmptyText THEN i
             ELSE lastCarrier(parts, i - 1)

attachPendingRetroactively(t, role, forward) ==
    IF t.pendingThoughtSignature # NoSig /\ forward /\ role = "model"
    THEN LET i == lastCarrier(t.parts, Len(t.parts))
         IN  IF i = 0 THEN t
             ELSE [t EXCEPT !.parts[i].thoughtSignature = t.pendingThoughtSignature,
                            !.pendingThoughtSignature = NoSig]
    ELSE t

\* functionResponse parts, each with the inlineData parts right after it
RECURSIVE responsesFirst(_, _, _)
responsesFirst(parts, i, takeAttached) ==
    IF i > Len(parts) THEN << >>
    ELSE IF parts[i].kind = "functionResponse"
    THEN <<parts[i]>> \o responsesFirst(parts, i + 1, TRUE)
    ELSE IF takeAttached /\ parts[i].kind = "inlineData"
    THEN <<parts[i]>> \o responsesFirst(parts, i + 1, TRUE)
    ELSE responsesFirst(parts, i + 1, FALSE)

RECURSIVE deferredParts(_, _, _)
deferredParts(parts, i, takeAttached) ==
    IF i > Len(parts) THEN << >>
    ELSE IF parts[i].kind = "functionResponse"
    THEN deferredParts(parts, i + 1, TRUE)
    ELSE IF takeAttached /\ parts[i].kind = "inlineData"
    THEN deferredParts(parts, i + 1, TRUE)
    ELSE <<parts[i]>> \o deferredParts(parts, i + 1, FALSE)

\* A reorderToolResults that moves the functionResponse parts only.
reorderResponsesOnly(parts, role) ==
    IF role = "user" /\ \E i \in DOMAIN parts : parts[i].kind = "functionResponse"
    THEN SelectSeq(parts, LAMBDA p : p.kind = "functionResponse")
         \o SelectSeq(parts, LAMBDA p : p.kind # "functionResponse")
    ELSE parts

reorderToolResults(parts, role) ==
    IF role = "user" /\ \E i \in DOMAIN parts : parts[i].kind = "functionResponse"
    THEN responsesFirst(parts, 1, FALSE) \o deferredParts(parts, 1, FALSE)
    ELSE parts

\* "model" for "assistant"
roleOf(msg) == IF msg.role = "assistant" THEN "model" ELSE msg.role

\* messageHasFunctionCallToolUse
hasFunctionCallToolUse(msg, mcpXmlEnabled) ==
    roleOf(msg) = "model" /\ ~msg.isString /\ \E i \in DOMAIN msg.content :
        /\ msg.content[i].type = "tool_use"
        /\ ~(mcpXmlEnabled /\ isMcpToolName(msg.content[i].tool.name))

NewMessageState(c) ==
    [parts |-> << >>, sawNonThinkingContent |-> FALSE,
     previousWasToolResult |-> FALSE, pendingThoughtSignature |-> NoSig,
     lastUserTaskTextNormalized |-> c.lastUserTaskTextNormalized,
     toolIdToName |-> c.toolIdToName, ledger |-> c.ledger]

stringContent(t, msg) ==
    IF msg.text = EmptyText THEN t
    ELSE [t EXCEPT !.parts = <<RPart("text", msg.text, FALSE, NoSig, NoTool, "")>>,
                   !.lastUserTaskTextNormalized =
                       IF roleOf(msg) = "user" THEN stripWhitespace(msg.text) ELSE @]

messageParts(t, msg, forward, mcpXmlEnabled) ==
    IF msg.isString THEN stringContent(t, msg)
    ELSE transformItems(t, msg.content, roleOf(msg), forward, mcpXmlEnabled,
                        hasFunctionCallToolUse(msg, mcpXmlEnabled))

reordered(t, role) == [t EXCEPT !.parts = reorderToolResults(@, role)]

\* "if (clientContent.parts.length > 0) contents.push(clientContent)"
pushContent(c, t, role) ==
    [contents |-> IF t.parts = << >> THEN c.contents
                  ELSE Append(c.contents, [role |-> role, parts |-> t.parts]),
     perMessage |-> Append(c.perMessage, t.parts),
     lastUserTaskTextNormalized |-> t.lastUserTaskTextNormalized,
     toolIdToName |-> t.toolIdToName, ledger |-> t.ledger]

\* One iteration of the messages loop: the parts of message msg are pushed
\* and the state carried to the next message is updated.
transformMessage(c, msg, forward, mcpXmlEnabled) ==
    pushContent(c,
        reordered(attachPendingRetroactively(
                      messageParts(NewMessageState(c), msg, forward, mcpXmlEnabled),
                      roleOf(msg), forward),
                  roleOf(msg)),
        roleOf(msg))

\* perMessage (ghost) is the list of parts made from each message
NewRequestContext(ledger) ==
    [contents |-> << >>, perMessage |-> << >>, lastUserTaskTextNormalized |-> EmptyText,
     toolIdToName |-> << >>, ledger |-> ledger]

\* A shouldForward that does not look at the start index.
shouldForwardEverywhere(forwardThoughtSignatures, signatureSegmentStartIndex, msgIndex) ==
    forwardThoughtSignatures

\* shouldForwardThoughtSignatures for message msgIndex; start = -1 stands for
\* "no signatureSegmentStartIndex"
shouldForward(forwardThoughtSignatures, signatureSegmentStartIndex, msgIndex) ==
    forwardThoughtSignatures
    /\ (signatureSegmentStartIndex = -1 \/ msgIndex >= signatureSegmentStartIndex)

\* The contents loop of transformClaudeRequestIn over messages[msgIndex..].
RECURSIVE transformMessages(_, _, _, _, _, _)
transformMessages(c, messages, msgIndex, forwardThoughtSignatures, start, mcpXmlEnabled) ==
    IF msgIndex >= Len(messages) THEN c
    ELSE transformMessages(
             transformMessage(c, messages[msgIndex + 1],
                 shouldForward(forwardThoughtSignatures, start, msgIndex), mcpXmlEnabled),
             messages, msgIndex + 1, forwardThoughtSignatures, start, mcpXmlEnabled)

requestResult(c) ==
    [done |-> TRUE, contents |-> c.contents, perMessage |-> c.perMessage, ledger |-> c.ledger]

\* request is [messages, forwardThoughtSignatures, signatureSegmentStartIndex,
\* mcpXmlEnabled]; the result holds contents and the ledger after the call.
transformClaudeRequestIn(ledger, request) ==
    requestResult(transformMessages(NewRequestContext(ledger),
                      request.messages, 0, request.forwardThoughtSignatures,
                      request.signatureSegmentStartIndex, request.mcpXmlEnabled))

(***************************************************************************)
(* What a client assembles from the outbound events: one block per         *)
(* content_block_start, with the deltas of its index applied.              *)
(***************************************************************************)
applyDelta(b, e) ==
    CASE e.kind \in {"text_delta", "thinking_delta"} -> [b EXCEPT !.text = @ \o e.text]
      [] e.kind = "signature_delta" -> [b EXCEPT !.sig = e.sig]
      [] e.kind = "input_json_delta" -> [b EXCEPT !.input = @ \o e.text]
      [] OTHER -> b

RECURSIVE assemble(_, _, _, _)
assemble(events, cur, index, open) ==
    IF events = << >> THEN (IF open THEN <<cur>> ELSE << >>)
    ELSE LET e == Head(events)
             rest == Tail(events)
         IN  CASE e.type = "content_block_start" ->
                    (IF open THEN <<cur>> ELSE << >>)
                    \o assemble(rest, Block(e.kind, EmptyText, e.sig, e.tool, EmptyText),
                                e.index, TRUE)
               [] e.type = "content_block_delta" ->
                    assemble(rest, IF open /\ e.index = index THEN applyDelta(cur, e) ELSE cur,
                             index, open)
               [] e.type = "content_block_stop" ->
                    (IF open THEN <<cur>> ELSE << >>) \o assemble(rest, cur, index, FALSE)
               [] OTHER -> assemble(rest, cur, index, open)

BlocksOf(events) == assemble(events, Block("text", EmptyText, NoSig, NoTool, EmptyText), 0, FALSE)

\* The assistant message a client replays from outbound blocks; echoSig says
\* whether it echoes tool_use.signature (Claude Code does not).
ReplayItem(b, echoSig) ==
    IF b.type = "tool_use"
    THEN Item("tool_use", b.input, IF echoSig THEN b.sig ELSE NoSig, b.tool, 0)
    ELSE Item(b.type, b.text, b.sig, NoTool, 0)

ReplayMessage(blocks, echoSig) ==
    [role |-> "assistant", isString |-> FALSE, text |-> EmptyText,
     content |-> [i \in DOMAIN blocks |-> ReplayItem(blocks[i], echoSig)]]

(***************************************************************************)
(* Inputs of the response side                                             *)
(***************************************************************************)
NativeName == <<"Bash">>

\* Shapes of backend parts: what the n-th part of a response may look like.
TextShapes ==
    [kind : {"text"}, thought : BOOLEAN, hasText : BOOLEAN, hasSig : BOOLEAN,
     hasId : {FALSE}, hasArgs : {FALSE}]
CallShapes ==
    { [kind |-> "fc", thought |-> FALSE, hasText |-> FALSE, hasSig |-> g,
       hasId |-> TRUE, hasArgs |-> TRUE] : g \in BOOLEAN }
    \cup { [kind |-> "fc", thought |-> FALSE, hasText |-> FALSE, hasSig |-> FALSE,
            hasId |-> FALSE, hasArgs |-> FALSE] }
PartShapes == TextShapes \cup CallShapes
\* In a built-in-search response: reasoning, answer text, a token on an empty text.
SearchShapes ==
    { sh \in TextShapes : (sh.hasSig => ~sh.hasText) /\ (sh.thought => sh.hasText) }

MkPart(sh, n) ==
    [kind |-> sh.kind, thought |-> sh.thought,
     text |-> IF sh.hasText THEN <<n>> ELSE EmptyText,
     sig |-> IF sh.hasSig THEN n ELSE NoSig,
     id |-> IF sh.hasId THEN n ELSE 0,
     name |-> IF sh.kind = "fc" THEN NativeName ELSE NoName,
     args |-> IF sh.hasArgs THEN <<n>> ELSE EmptyText]

NoGrounding ==
    [has |-> FALSE, query |-> 0, hasChunks |-> FALSE, chunks |-> << >>,
     hasSupports |-> FALSE, supports |-> << >>]
\* groundingMetadata with a query, one redirect result, and two supports: one
\* citing the result, one citing a result that does not exist.
FullGrounding ==
    [has |-> TRUE, query |-> 9, hasChunks |-> TRUE, chunks |-> <<RedirectUrl>>,
     hasSupports |-> TRUE,
     supports |-> << [cited |-> TRUE, idx |-> 1], [cited |-> TRUE, idx |-> 2] >>]

Chunk(parts, grounding, finishReason) ==
    [kind |-> "chunk", parts |-> parts, grounding |-> grounding, finishReason |-> finishReason]
DoneLine == [kind |-> "done", parts |-> << >>, grounding |-> NoGrounding, finishReason |-> ""]
BadLine == [kind |-> "bad", parts |-> << >>, grounding |-> NoGrounding, finishReason |-> ""]

\* The chunks a backend may send when n - 1 parts have been sent: at most one
\* part per chunk (a chunk of several parts is processed as the same parts in
\* consecutive chunks are), with or without a finishReason.
Chunks(m, n) ==
    IF m = "stream"
    THEN { Chunk(ps, NoGrounding, f) :
             ps \in {<< >>} \cup { <<MkPart(sh, n)>> : sh \in PartShapes },
             f \in {"", "STOP"} }
         \cup { Chunk(<< >>, NoGrounding, "MAX_TOKENS") }
    ELSE { Chunk(ps, g, f) :
             ps \in {<< >>} \cup { <<MkPart(sh, n)>> : sh \in SearchShapes },
             g \in {NoGrounding, FullGrounding},
             f \in {"", "STOP"} }

(***************************************************************************)
(* State                                                                   *)
(***************************************************************************)
NewStreamingState ==
    [blockType |-> BLOCK_NONE, blockIndex |-> 0,
     messageStartSent |-> FALSE, messageStopSent |-> FALSE,
     usedTool |-> FALSE, hasThinking |-> FALSE,
     pending |-> NoSig, trailingSignature |-> NoSig,
     webSearchMode |-> FALSE,
     webSearch |-> [toolUseId |-> 0, query |-> 0, results |-> << >>, supports |-> << >>,
                    bufferedTextParts |-> << >>],
     controller |-> << >>]

NoResult == [done |-> FALSE]
NoReq == [done |-> FALSE]
\* The tokenizer before createMcpXmlStreamParser: no names, an empty buffer.
NoParser == [nameSet |-> {}, input |-> << >>, pos |-> 0, buffer |-> << >>,
             events |-> << >>, flushed |-> FALSE, split |-> FALSE]
\* No /v1/messages exchange yet.
NoSwitch ==
    [pc |-> "idle", result |-> "none", sessionMcpState |-> [id \in {} |-> 0],
     mcpModel |-> << >>, envMap |-> {}, nRequests |-> 0,
     response |-> [status |-> 0, headers |-> [k \in {} |-> ""],
                   body |-> [kind |-> "none", attempt |-> 0, chunks |-> << >>]]]

WithLedger(s, ledger) == [f \in DOMAIN s \cup {"ledger"} |->
                             IF f = "ledger" THEN ledger ELSE s[f]]
WithoutLedger(s) == [f \in DOMAIN s \ {"ledger"} |-> s[f]]

Init ==
    /\ mode \in {"stream", "search", "json", "request"}
    /\ state = NewStreamingState
    /\ inParts = << >>
    /\ nLines = 0
    /\ lastLine = "none"
    /\ toolThoughtSignatures = EmptyLedger
    /\ nsResult = NoResult
    /\ reqIn = NoReq
    /\ reqOut = NoReq
    /\ parser = NoParser
    /\ switch = NoSwitch

Streaming == mode \in {"stream", "search"} /\ nLines < MaxLines /\ ~reqOut.done

\* One call of processSSELine by handleStreamingResponse's read loop; r is
\* the state it leaves.
Received(r, line) ==
    /\ state' = WithoutLedger(r)
    /\ toolThoughtSignatures' = r.ledger
    /\ inParts' = inParts \o line.parts
    /\ nLines' = nLines + 1
    /\ lastLine' = IF line.kind = "chunk" /\ line.finishReason # "" THEN "finish" ELSE line.kind
    /\ UNCHANGED <<mode, nsResult, reqIn, reqOut, parser, switch>>

Receive(line, resolved) ==
    Received(processSSELine(WithLedger(state, toolThoughtSignatures), line, resolved), line)

\* the redirect resolution only runs at a finish in web_search mode
Resolves(line) ==
    IF line.finishReason # "" /\ (state.webSearchMode \/ line.grounding.has)
       /\ (state.webSearch.results # << >> \/ line.grounding.hasChunks)
    THEN BOOLEAN ELSE {FALSE}

ReceiveChunk ==
    /\ Streaming
    /\ \E line \in Chunks(mode, Len(inParts) + 1) :
         \E resolved \in Resolves(line) : Receive(line, resolved)

ReceiveDone == Streaming /\ Receive(DoneLine, FALSE)

ReceiveBad == Streaming /\ Receive(BadLine, FALSE)

\* The parts of a non-streaming backend response.
PartSeqs(n) ==
    { [i \in DOMAIN shapes |-> MkPart(shapes[i], i)] :
        shapes \in UNION { [1..j -> PartShapes] : j \in 0..n } }

Responded(r, parts) ==
    /\ nsResult' = [done |-> TRUE, content |-> r.content, stop_reason |-> r.stop_reason]
    /\ toolThoughtSignatures' = r.ledger
    /\ inParts' = parts
    /\ UNCHANGED <<mode, state, nLines, lastLine, reqIn, reqOut, parser, switch>>

\* handleNonStreamingResponse, outside built-in search.
HandleNonStreamingResponse ==
    /\ mode = "json"
    /\ ~nsResult.done
    /\ \E parts \in PartSeqs(MaxParts), finishReason \in {"STOP", "MAX_TOKENS"} :
         Responded(nsProcess(toolThoughtSignatures, parts, finishReason), parts)

\* The content blocks the client has received, once the response is complete.
ResponseComplete ==
    \/ mode \in {"stream", "search"} /\ state.messageStopSent
    \/ mode = "json" /\ nsResult.done
OutBlocks ==
    IF mode = "json"
    THEN IF nsResult.done THEN nsResult.content ELSE << >>
    ELSE BlocksOf(state.controller)

Request(messages, forward, start, mcpXmlEnabled) ==
    [done |-> TRUE, messages |-> messages, forwardThoughtSignatures |-> forward,
     signatureSegmentStartIndex |-> start, mcpXmlEnabled |-> mcpXmlEnabled]

Transformed(r, request) ==
    /\ reqIn' = request
    /\ reqOut' = [done |-> TRUE, contents |-> r.contents, perMessage |-> r.perMessage]
    /\ toolThoughtSignatures' = r.ledger
    /\ UNCHANGED <<mode, state, inParts, nLines, lastLine, nsResult, parser, switch>>

Transform(request) ==
    Transformed(transformClaudeRequestIn(toolThoughtSignatures, request), request)

\* A later request that replays the response as the assistant turn of its history.
ReplayRequest ==
    /\ ResponseComplete
    /\ ~reqOut.done
    /\ \E forward \in BOOLEAN, echoSig \in BOOLEAN :
         Transform(Request(<<ReplayMessage(OutBlocks, echoSig)>>, forward, -1, FALSE))

\* Shapes of inbound content items; the n-th item of a message carries the
\* text <<n>>, the signature n and the tool id n when its shape has one.
ItemShapes ==
    [type : {"text"}, hasText : BOOLEAN, hasSig : {FALSE}, variant : {""}]
    \cup [type : {"text"}, hasText : {TRUE}, hasSig : {FALSE}, variant : {"no_content"}]
    \cup [type : {"thinking"}, hasText : BOOLEAN, hasSig : BOOLEAN, variant : {""}]
    \cup [type : {"redacted_thinking", "tool_result"}, hasText : {TRUE}, hasSig : {FALSE},
          variant : {""}]
    \cup [type : {"image"}, hasText : {TRUE}, hasSig : {FALSE}, variant : {"", "base64"}]
    \cup [type : {"tool_use"}, hasText : {TRUE}, hasSig : BOOLEAN, variant : {""}]

MkItem(sh, n) ==
    Item(sh.type,
         IF sh.variant = "no_content" THEN NoContentText
         ELSE IF sh.hasText THEN <<n>> ELSE EmptyText,
         IF sh.hasSig THEN n ELSE NoSig,
         IF sh.type \in {"tool_use", "tool_result"} THEN Tool(n, NativeName) ELSE NoTool,
         IF sh.variant = "base64" THEN 1 ELSE 0)

ItemSeqs(n) ==
    { [i \in DOMAIN shapes |-> MkItem(shapes[i], i)] :
        shapes \in UNION { [1..j -> ItemShapes] : j \in 0..n } }

\* The messages of a request: content is a list of items, or a string.
Messages ==
    { [role |-> role, isString |-> FALSE, text |-> EmptyText, content |-> items] :
        role \in {"user", "assistant"}, items \in ItemSeqs(MaxItems) }
    \cup { [role |-> role, isString |-> TRUE, text |-> text, content |-> << >>] :
             role \in {"user", "assistant"}, text \in {EmptyText, <<1>>, NoContentText} }

\* transformClaudeRequestIn on a request of one message.
TransformRequest ==
    /\ mode = "request"
    /\ ~reqOut.done
    /\ \E msg \in Messages, forward \in BOOLEAN :
         Transform(Request(<<msg>>, forward, -1, FALSE))

Next ==
    \/ ReceiveChunk
    \/ ReceiveDone
    \/ ReceiveBad
    \/ HandleNonStreamingResponse
    \/ ReplayRequest
    \/ TransformRequest

Spec == Init /\ [][Next]_vars

(***************************************************************************)
(* Properties of the streaming response transcoder                         *)
(***************************************************************************)
Events == state.controller

\* Events from[..] keep the block discipline when `open` says whether a block
\* is open and `closed` is the number of blocks closed so far.
RECURSIVE Disciplined(_, _, _, _)
Disciplined(events, from, open, closed) ==
    IF from > Len(events) THEN TRUE
    ELSE LET e == events[from]
         IN  CASE e.type = "content_block_start" ->
                    ~open /\ e.index = closed /\ Disciplined(events, from + 1, TRUE, closed)
               [] e.type = "content_block_delta" ->
                    open /\ e.index = closed /\ Disciplined(events, from + 1, TRUE, closed)
               [] e.type = "content_block_stop" ->
                    open /\ e.index = closed /\ Disciplined(events, from + 1, FALSE, closed + 1)
               [] OTHER -> Disciplined(events, from + 1, open, closed)

\* C1: in the outbound event stream, block starts and stops strictly
\* alternate (at most one block is open), every stop carries the index of the
\* start before it, the indices are 0, 1, 2, ... growing by one per closed
\* block, and every delta carries the index of the block open at that moment.
C1_BlockDiscipline == Disciplined(Events, 1, FALSE, 0)

\* Two blocks have been closed and a third is open with a delta in it.
C1_Witness ==
    /\ state.blockIndex = 2
    /\ state.blockType # BLOCK_NONE
    /\ Events[Len(Events)].type = "content_block_delta"

(***************************************************************************)
(* Properties of the token placement                                       *)
(***************************************************************************)
\* The last line received was a chunk with a finish reason.
FinishRan == mode \in {"stream", "search"} /\ lastLine = "finish"

\* The response has been transcoded in full.
ResponseDone == FinishRan \/ (mode = "json" /\ nsResult.done)

Contains(text, sub) ==
    \E k \in 0..(Len(text) - Len(sub)) : SubSeq(text, k + 1, k + Len(sub)) = sub

IsEmptyTextPart(part) == part.kind = "text" /\ ~part.thought /\ part.text = EmptyText

\* Block b is the outbound block of backend part `part`.
CorrespondsTo(b, part) ==
    IF part.kind = "fc"
    THEN b.type = "tool_use" /\ b.tool.name = part.name /\ (part.id # 0 => b.tool.id = part.id)
    ELSE IF part.thought
    THEN b.type = "thinking" /\ Contains(b.text, part.text)
    ELSE b.type = "thinking" /\ b.text = EmptyText

\* The token of `part` is on exactly one block, the one of that part.
PlacedOnItsBlock(blocks, part) ==
    /\ \E j \in DOMAIN blocks : blocks[j].sig = part.sig
    /\ \A j \in DOMAIN blocks : blocks[j].sig = part.sig => CorrespondsTo(blocks[j], part)
    /\ Cardinality({ j \in DOMAIN blocks : blocks[j].sig = part.sig }) = 1

\* The response opens with a reasoning part, so that no later token is
\* discarded for want of reasoning in the response.
OpensWithReasoning == inParts # << >> /\ inParts[1].thought

\* C2: for every response, streaming or not (here: one that opens with a
\* reasoning part), every token that arrived on a reasoning part, a
\* function-call part or an empty text part is carried by the outbound block
\* of exactly that part, and by no other block.
C2_TokenPlacement ==
    (ResponseDone /\ OpensWithReasoning) =>
        \A i \in DOMAIN inParts :
            LET part == inParts[i]
            IN  part.sig # NoSig /\ (part.kind = "fc" \/ part.thought \/ IsEmptyTextPart(part))
                    => PlacedOnItsBlock(OutBlocks, part)

(***************************************************************************)
(* Properties of the replay of a response in a later request               *)
(***************************************************************************)
\* The response has been replayed as the assistant message of a request.
Replayed == mode \in {"stream", "search", "json"} /\ reqOut.done

BackendParts == IF reqOut.done /\ reqOut.perMessage # << >> THEN reqOut.perMessage[1] ELSE << >>

\* Backend part p of the request is of the semantic kind of response part `part`.
SameSemanticPart(p, part) ==
    IF part.kind = "fc"
    THEN p.kind = "functionCall" /\ p.tool.name = part.name
         /\ (part.id # 0 => p.tool.id = part.id)
    ELSE p.kind = "text" /\ p.thought /\ Contains(p.text, part.text)

\* C3: a token that arrived on a reasoning part or a function-call part, and
\* that the response carried on that part's block, is put unmodified on the
\* backend part of the same semantic kind when the blocks are replayed with
\* token forwarding enabled.
C3_TokenRoundTrip ==
    (Replayed /\ reqIn.forwardThoughtSignatures) =>
        \A i \in DOMAIN inParts :
            LET part == inParts[i]
            IN  (part.sig # NoSig /\ (part.kind = "fc" \/ part.thought)
                 /\ PlacedOnItsBlock(OutBlocks, part))
                    => \E j \in DOMAIN BackendParts :
                           /\ BackendParts[j].thoughtSignature = part.sig
                           /\ SameSemanticPart(BackendParts[j], part)

(***************************************************************************)
(* Properties of responses without reasoning                               *)
(***************************************************************************)
NoReasoningPart == \A i \in DOMAIN inParts : ~inParts[i].thought

\* C4: outside built-in search, as long as no reasoning part has arrived the
\* outbound content (streaming, at every moment, or non-streaming) holds no
\* thinking block, and the token of a text part is on no block.
C4_NoThinkingWithoutReasoning ==
    (mode \in {"stream", "json"} /\ NoReasoningPart) =>
        \A j \in DOMAIN OutBlocks :
            /\ OutBlocks[j].type # "thinking"
            /\ OutBlocks[j].sig # NoSig => OutBlocks[j].type = "tool_use"

\* A finished stream without reasoning in which a token arrived on an empty
\* text part, and then a function call.
C4_Witness ==
    /\ mode = "stream" /\ FinishRan /\ NoReasoningPart
    /\ \E i \in DOMAIN inParts : IsEmptyTextPart(inParts[i]) /\ inParts[i].sig # NoSig
                                 /\ \E k \in DOMAIN inParts : k > i /\ inParts[k].kind = "fc"

(***************************************************************************)
(* Properties of the start and the end of a stream                         *)
(***************************************************************************)
Positions(type) == { i \in DOMAIN Events : Events[i].type = type }

BlockEventTypes == {"content_block_start", "content_block_delta", "content_block_stop"}

\* A block has been started and not stopped.
BlockOpen == Cardinality(Positions("content_block_start"))
                 > Cardinality(Positions("content_block_stop"))

\* C5: when [DONE] or a chunk with a finish reason has just been processed
\* (in a stream that has started), the finish sequence has run: no block is
\* open, a message_delta has been emitted after every content-block event,
\* and message_stop has been emitted after a message_delta.
C5_FinishSequence ==
    (state.messageStartSent /\ lastLine \in {"done", "finish"}) =>
        /\ ~BlockOpen
        /\ \E d \in Positions("message_delta") :
              \A i \in DOMAIN Events : Events[i].type \in BlockEventTypes => i < d
        /\ \E d \in Positions("message_delta"), m \in Positions("message_stop") : d < m

\* C6: message_stop is emitted at most once per stream.
C6_MessageStopOnce == Cardinality(Positions("message_stop")) <= 1

\* Two finish chunks and then [DONE] have been received.
C6_Witness ==
    /\ lastLine = "done"
    /\ Cardinality(Positions("message_delta")) >= 2
    /\ Cardinality(Positions("message_stop")) = 1

\* C7: at most one message_start is emitted, exactly one once a chunk has
\* been parsed, and it precedes every other outbound event.
C7_MessageStartFirst ==
    /\ Cardinality(Positions("message_start")) <= 1
    /\ lastLine \in {"chunk", "finish"} => Cardinality(Positions("message_start")) = 1
    /\ Events # << >> => Events[1].type = "message_start"

(***************************************************************************)
(* Properties of built-in search streaming                                 *)
(***************************************************************************)
\* What one step appends to the outbound stream and to the received parts.
NewEvents == SubSeq(state'.controller, Len(state.controller) + 1, Len(state'.controller))
NewParts == SubSeq(inParts', Len(inParts) + 1, Len(inParts'))

StartsOf(events, kind) ==
    { i \in DOMAIN events : events[i].type = "content_block_start" /\ events[i].kind = kind }
DeltasOf(events, kind) ==
    { i \in DOMAIN events : events[i].type = "content_block_delta" /\ events[i].kind = kind }

TextsOf(seq) == [i \in DOMAIN seq |-> seq[i].text]
AnswerParts(parts) == SelectSeq(parts, LAMBDA p : p.kind = "text" /\ ~p.thought)
NonEmpty(texts) == SelectSeq(texts, LAMBDA t : t # EmptyText)

\* The events of a finish in search mode: the search-invocation block, the
\* search-result block with the resolved results, the citation blocks, one
\* text block with the buffered texts, then message_delta.
SearchFinishOrder(events, webSearch) ==
    \E srv \in StartsOf(events, "server_tool_use"),
       res \in StartsOf(events, "web_search_tool_result"),
       txt \in StartsOf(events, "text"),
       md \in { i \in DOMAIN events : events[i].type = "message_delta" } :
        /\ StartsOf(events, "server_tool_use") = {srv}
        /\ StartsOf(events, "web_search_tool_result") = {res}
        /\ StartsOf(events, "text") = {txt}
        /\ srv < res /\ res < txt /\ txt < md
        /\ events[res].text = webSearch.results
        /\ \A c \in StartsOf(events, "citation") : res < c /\ c < txt
        /\ \A d \in DeltasOf(events, "text_delta") : txt < d /\ d < md
        /\ TextsOf(SelectSeq(events, LAMBDA e : e.type = "content_block_delta"
                                                /\ e.kind = "text_delta"))
               = NonEmpty(webSearch.bufferedTextParts)

C8_Step ==
    (state'.webSearchMode /\ nLines' = nLines + 1 /\ lastLine' \in {"chunk", "finish"}) =>
        /\ \A i \in DOMAIN NewParts :
              NewParts[i].thought =>
                  \E d \in DeltasOf(NewEvents, "thinking_delta") :
                      NewEvents[d].text = NewParts[i].text
        /\ state'.webSearch.bufferedTextParts =
               state.webSearch.bufferedTextParts \o TextsOf(AnswerParts(NewParts))
        /\ lastLine' = "chunk" =>
               /\ DeltasOf(NewEvents, "text_delta") = {}
               /\ \A i \in DOMAIN NewEvents :
                     NewEvents[i].type = "content_block_start" => NewEvents[i].kind = "thinking"
        /\ lastLine' = "finish" => SearchFinishOrder(NewEvents, state'.webSearch)

\* C8: in built-in-search streaming, a chunk relays its reasoning text at once
\* and buffers its answer text in arrival order without emitting any text
\* delta; a chunk with a finish reason then emits, in this order, the
\* server_tool_use block, the web_search_tool_result block with the resolved
\* results, the citation blocks, one text block with the buffered answer
\* texts, and only then message_delta.
C8_SearchDeferred == [][C8_Step]_vars

\* A search stream has finished after reasoning and two answer texts, with a
\* citation block.
C8_Witness ==
    /\ state.webSearchMode /\ lastLine = "finish" /\ state.hasThinking
    /\ Len(NonEmpty(state.webSearch.bufferedTextParts)) >= 2
    /\ StartsOf(Events, "citation") # {}

(***************************************************************************)
(* Properties of plain text                                                *)
(***************************************************************************)
RECURSIVE Concat(_)
Concat(texts) == IF texts = << >> THEN EmptyText ELSE Head(texts) \o Concat(Tail(texts))

\* The one message of the request, once it has been transcoded.
RequestDone == mode = "request" /\ reqOut.done
Message == reqIn.messages[1]

OnlyTextItems == ~Message.isString /\ \A i \in DOMAIN Message.content :
                                          Message.content[i].type = "text"

IsPlainTextPart(p) ==
    p.kind = "text" /\ ~p.thought /\ p.thoughtSignature = NoSig /\ p.xml = ""

\* A response of plain text parts without tokens, finished once, at its end.
PlainTextResponse ==
    /\ \/ mode = "json" /\ nsResult.done
       \/ mode = "stream" /\ lastLine = "finish"
                          /\ Cardinality(Positions("message_delta")) = 1
    /\ \A i \in DOMAIN inParts :
          inParts[i].kind = "text" /\ ~inParts[i].thought /\ inParts[i].sig = NoSig

\* The answer text comes out byte-identical, in one text block.
AnswerTextPreserved ==
    PlainTextResponse =>
        /\ Concat(TextsOf(OutBlocks)) = Concat(TextsOf(inParts))
        /\ Len(OutBlocks) <= 1
        /\ \A j \in DOMAIN OutBlocks : OutBlocks[j].type = "text" /\ OutBlocks[j].sig = NoSig

\* C9 as stated: every text item of a text-only message (with text to emit)
\* becomes a text part with the same text, in the same order, and the answer
\* text of a plain text response comes out byte-identical in one text block.
C9_EveryTextItemEmitted ==
    /\ (RequestDone /\ OnlyTextItems) =>
           /\ TextsOf(BackendParts) = NonEmpty(TextsOf(Message.content))
           /\ \A j \in DOMAIN BackendParts : IsPlainTextPart(BackendParts[j])
    /\ AnswerTextPreserved

\* An item the request transcoder emits no part for.
IsSkippedText(text) == text = EmptyText \/ text = NoContentText

\* C9, amended: the text items whose text is neither empty nor the
\* placeholder "(no content)" become text parts with the same text in the
\* same order, and the other text items produce no part; a string content
\* becomes one text part unless it is empty; the answer text of a plain text
\* response comes out byte-identical in one text block.
C9_PlainTextRoundTrip ==
    /\ (RequestDone /\ OnlyTextItems) =>
           /\ TextsOf(BackendParts)
                  = SelectSeq(TextsOf(Message.content), LAMBDA t : ~IsSkippedText(t))
           /\ \A j \in DOMAIN BackendParts : IsPlainTextPart(BackendParts[j])
    /\ (RequestDone /\ Message.isString) =>
           /\ TextsOf(BackendParts)
                  = IF Message.text = EmptyText THEN << >> ELSE <<Message.text>>
           /\ \A j \in DOMAIN BackendParts : IsPlainTextPart(BackendParts[j])
    /\ AnswerTextPreserved

\* A message of three text items, one of them the placeholder, has been
\* transcoded.
C9_Witness ==
    /\ RequestDone /\ OnlyTextItems
    /\ Len(Message.content) = 3
    /\ \E i \in DOMAIN Message.content : Message.content[i].text = NoContentText
    /\ Len(BackendParts) = 2

(***************************************************************************)
(* Properties of the order of reasoning in a backend message               *)
(***************************************************************************)
Items == IF Message.isString THEN << >> ELSE Message.content
Forwarding == reqIn.forwardThoughtSignatures

\* All thought parts precede every non-thought part.
ThoughtPartsLead(parts) ==
    \A i, j \in DOMAIN parts : (i < j /\ parts[j].thought) => parts[i].thought

\* Item k is a reasoning item with text.
IsReasoningWithText(k) == Items[k].type = "thinking" /\ Items[k].text # EmptyText

\* No part has been made from item k (the text of item k is its own).
Discarded(k) == \A j \in DOMAIN BackendParts : BackendParts[j].text # Items[k].text

MakesOtherPart(i) ==
    CASE Items[i].type = "text" -> ~IsSkippedText(Items[i].text)
      [] Items[i].type = "thinking" -> Items[i].text # EmptyText /\ ~Forwarding
      [] Items[i].type = "redacted_thinking" -> Items[i].text # EmptyText
      [] Items[i].type = "image" -> Items[i].images = 1
      [] OTHER -> TRUE

IsCarrier(k) ==
    Items[k].type = "thinking" /\ Items[k].text = EmptyText /\ Items[k].sig # NoSig

\* Part p can carry a token: a functionCall part or a non-empty text part
\* that is not a thought part.
IsEligiblePart(p) ==
    ~p.thought /\ (p.kind = "functionCall" \/ (p.kind = "text" /\ p.text # EmptyText))

\* Part p was made from an item that has no token of its own (the text of a
\* part is the text of its item, and the n-th item has the text <<n>>).
FromItemWithoutToken(p) ==
    \E i \in DOMAIN Items : Items[i].text = p.text /\ Items[i].sig = NoSig

\* C11: in an assistant message transcoded with token forwarding, the token
\* of a token-only carrier is on no thought part, and when the message makes
\* an eligible part (a functionCall part or a non-empty text part, from an
\* item without a token of its own) the token is on an eligible part of the
\* message.
C11_CarrierTokenAttached ==
    (RequestDone /\ Forwarding /\ Message.role = "assistant") =>
        \A k \in DOMAIN Items :
            IsCarrier(k) =>
                /\ \A j \in DOMAIN BackendParts :
                      BackendParts[j].thought
                          => BackendParts[j].thoughtSignature # Items[k].sig
                /\ (\E j \in DOMAIN BackendParts :
                        IsEligiblePart(BackendParts[j])
                        /\ FromItemWithoutToken(BackendParts[j]))
                       => \E j \in DOMAIN BackendParts :
                              /\ IsEligiblePart(BackendParts[j])
                              /\ BackendParts[j].thoughtSignature = Items[k].sig

(***************************************************************************)
(* Properties of token forwarding in the request transcoder                *)
(***************************************************************************)
\* Item k is a reasoning or tool-invocation item that carries a token.
CarriesToken(k) == Items[k].type \in {"thinking", "tool_use"} /\ Items[k].sig # NoSig

\* The tokens of the items of the message.
ItemTokens == { Items[k].sig : k \in DOMAIN Items }

\* C12: when an assistant message is transcoded with token forwarding, the
\* token of each of its reasoning and tool-invocation items is on some part
\* of the backend message, and every token on a part is the token of one
\* item of the message (with an empty ledger).
C12_NoTokenDropped ==
    (reqOut.done /\ Forwarding /\ Message.role = "assistant") =>
        /\ \A k \in DOMAIN Items :
              CarriesToken(k)
                  => \E j \in DOMAIN BackendParts :
                         BackendParts[j].thoughtSignature = Items[k].sig
        /\ RequestDone =>
              \A j \in DOMAIN BackendParts :
                  BackendParts[j].thoughtSignature \in ItemTokens \cup {NoSig}

(***************************************************************************)
(* Requests of several messages: transformClaudeRequestIn with the option  *)
(* signatureSegmentStartIndex, on a ledger earlier responses have filled.  *)
(***************************************************************************)
MaxSegmentItems == 2        \* content items per message of a segmented request

\* The items that can bring a token into a backend message.
SegmentItemShapes ==
    { sh \in ItemShapes : /\ sh.type \in {"text", "thinking", "tool_use"}
                          /\ sh.variant = ""
                          /\ (sh.hasText \/ sh.hasSig) }

\* The i-th item of message msgIndex carries the text <<n>>, the signature n
\* and the tool id n for n = 10 * (msgIndex + 1) + i: tool_use ids are unique
\* in a conversation.
ItemNumber(msgIndex, i) == 10 * (msgIndex + 1) + i

SegmentMessages(msgIndex) ==
    { [role |-> "assistant", isString |-> FALSE, text |-> EmptyText,
       content |-> [i \in DOMAIN shapes |-> MkItem(shapes[i], ItemNumber(msgIndex, i))]] :
        shapes \in UNION { [1..j -> SegmentItemShapes] : j \in 0..MaxSegmentItems } }

\* The ledger after earlier responses remembered a token for every tool id.
LedgerToken(toolUseId) == 100 + toolUseId
SeededLedger ==
    [id \in { ItemNumber(m, i) : m \in 0..1, i \in 1..(MaxSegmentItems + 1) } |->
        LedgerToken(id)]

\* "no signatureSegmentStartIndex", or a start index
SegmentStarts == -1..2

RequestInit ==
    /\ mode \in {"segments", "echo", "bridge"}
    /\ state = NewStreamingState
    /\ inParts = << >>
    /\ nLines = 0
    /\ lastLine = "none"
    /\ toolThoughtSignatures \in (IF mode = "segments" THEN {EmptyLedger, SeededLedger}
                                  ELSE {EmptyLedger})
    /\ nsResult = NoResult
    /\ reqIn = NoReq
    /\ reqOut = NoReq
    /\ parser = NoParser
    /\ switch = NoSwitch

\* transformClaudeRequestIn on a request of two assistant messages.
TransformSegmented ==
    /\ mode = "segments"
    /\ ~reqOut.done
    /\ \E m0 \in SegmentMessages(0), m1 \in SegmentMessages(1),
          forward \in BOOLEAN, start \in SegmentStarts :
         Transform(Request(<<m0, m1>>, forward, start, FALSE))

MaxEchoItems == 3           \* content items of the user message after a tool call

\* Texts of user items: "X", " X", "Y", " " and "" (0 is white space).
TaskTexts == { <<1>>, <<0, 1>>, <<2>>, <<0>>, EmptyText }

\* The user's task, as string content or as one text item.
TaskMessages ==
    { [role |-> "user", isString |-> TRUE, text |-> text, content |-> << >>] :
        text \in TaskTexts }
    \cup { [role |-> "user", isString |-> FALSE, text |-> EmptyText,
            content |-> <<Item("text", text, NoSig, NoTool, 0)>>] : text \in TaskTexts }

\* The assistant turn that calls tool 1.
CallMessage ==
    [role |-> "assistant", isString |-> FALSE, text |-> EmptyText,
     content |-> <<Item("tool_use", <<9>>, NoSig, Tool(1, NativeName), 0)>>]

\* The items of the user turn that answers it: the tool_result, text items
\* (the placeholder "(no content)" among them) and images (base64 or not).
EchoItems ==
    { Item("tool_result", <<8>>, NoSig, Tool(1, NativeName), 0) }
    \cup { Item("text", text, NoSig, NoTool, 0) : text \in TaskTexts \cup {NoContentText} }
    \cup { Item("image", <<7>>, NoSig, NoTool, b) : b \in {0, 1} }

ResultMessages ==
    { [role |-> "user", isString |-> FALSE, text |-> EmptyText, content |-> items] :
        items \in UNION { [1..j -> EchoItems] : j \in 0..MaxEchoItems } }

\* transformClaudeRequestIn on [user task, assistant tool_use, user tool_result ...].
TransformEchoed ==
    /\ mode = "echo"
    /\ ~reqOut.done
    /\ \E task \in TaskMessages, result \in ResultMessages :
         Transform(Request(<<task, CallMessage, result>>, TRUE, -1, FALSE))

MaxBridgeItems == 2         \* content items per message of a bridged history

\* Declared tools are [name, hasSchema]; McpName has the reserved prefix.
McpName == <<"mcp__", "server__tool">>
DeclaredTool(name, hasSchema) == [name |-> name, hasSchema |-> hasSchema]

hasWebSearchTool(tools) == \E i \in DOMAIN tools : tools[i].name = WebSearchName

getMcpTools(tools) == SelectSeq(tools, LAMBDA t : isMcpToolName(t.name))

\* mcpXmlEnabled: isMcpXmlEnabled() (the environment switch) and a declared
\* bridged tool
mcpXmlEnabledFor(bridge, tools) == bridge /\ getMcpTools(tools) # << >>

\* A tools section that declares every tool with a schema.
allFunctionDeclarations(tools, mcpXmlEnabled) ==
    IF hasWebSearchTool(tools) THEN << >>
    ELSE SelectSeq(tools, LAMBDA t : t.hasSchema)

\* "3. Tools": the functionDeclarations of the backend request (none when
\* web_search is mapped to googleSearch)
functionDeclarations(tools, mcpXmlEnabled) ==
    IF hasWebSearchTool(tools) THEN << >>
    ELSE SelectSeq(tools, LAMBDA t : ~(mcpXmlEnabled /\ isMcpToolName(t.name)) /\ t.hasSchema)

\* The tool lists of a request: any of a native tool, a bridged tool (with
\* or without input_schema) and web_search.
ToolLists ==
    { native \o mcp \o search :
        native \in { << >>, <<DeclaredTool(NativeName, TRUE)>> },
        mcp \in { << >>, <<DeclaredTool(McpName, TRUE)>>, <<DeclaredTool(McpName, FALSE)>> },
        search \in { << >>, <<DeclaredTool(WebSearchName, FALSE)>> } }

\* The history: an assistant turn that calls the native tool 1 and the
\* bridged tool 2, and a user turn with results of 1, of 2 and of the
\* unknown call 3.  The i-th item carries the text <<i>>.
BridgeCallItems(i) ==
    { Item("tool_use", <<i>>, NoSig, Tool(1, NativeName), 0),
      Item("tool_use", <<i>>, NoSig, Tool(2, McpName), 0),
      Item("tool_use", <<i>>, 20 + i, Tool(2, McpName), 0),
      Item("thinking", EmptyText, 30 + i, NoTool, 0),
      Item("text", <<i>>, NoSig, NoTool, 0) }
BridgeResultItems(i) ==
    { Item("tool_result", <<i>>, NoSig, Tool(id, NoName), 0) : id \in 1..3 }
    \cup { Item("text", <<i>>, NoSig, NoTool, 0) }

BridgeMessages(role, ItemsAt(_)) ==
    { [role |-> role, isString |-> FALSE, text |-> EmptyText, content |-> items] :
        items \in UNION { { f \in [1..j -> UNION { ItemsAt(i) : i \in 1..j }] :
                              \A i \in 1..j : f[i] \in ItemsAt(i) } :
                          j \in 0..MaxBridgeItems } }

BridgeRequest(messages, tools, bridge) ==
    [done |-> TRUE, messages |-> messages, forwardThoughtSignatures |-> TRUE,
     signatureSegmentStartIndex |-> -1, mcpXmlEnabled |-> mcpXmlEnabledFor(bridge, tools),
     tools |-> tools, bridge |-> bridge]

\* The contents r and the tools section of the backend request.
TransformedWithTools(r, request) ==
    /\ reqIn' = request
    /\ reqOut' = [done |-> TRUE, contents |-> r.contents, perMessage |-> r.perMessage,
                  functionDeclarations |->
                      functionDeclarations(request.tools, request.mcpXmlEnabled)]
    /\ toolThoughtSignatures' = r.ledger
    /\ UNCHANGED <<mode, state, inParts, nLines, lastLine, nsResult, parser, switch>>

TransformWithTools(request) ==
    TransformedWithTools(transformClaudeRequestIn(toolThoughtSignatures, request), request)

\* transformClaudeRequestIn on a request that declares tools, with a history
\* of tool calls and results.
TransformBridged ==
    /\ mode = "bridge"
    /\ ~reqOut.done
    /\ \E call \in BridgeMessages("assistant", BridgeCallItems),
          result \in BridgeMessages("user", BridgeResultItems),
          tools \in ToolLists, bridge \in BOOLEAN :
         TransformWithTools(BridgeRequest(<<call, result>>, tools, bridge))

RequestNext ==
    \/ TransformSegmented
    \/ TransformEchoed
    \/ TransformBridged

RequestSpec == RequestInit /\ [][RequestNext]_vars

(***************************************************************************)
(* Properties of segment isolation                                         *)
(***************************************************************************)
NoTokenNoThought(parts) ==
    \A j \in DOMAIN parts : parts[j].thoughtSignature = NoSig /\ ~parts[j].thought

\* The request `request` transcoded on the ledger `ledger` with the given
\* forwardThoughtSignatures and signatureSegmentStartIndex.
TranscodedWith(ledger, request, forward, start) ==
    transformClaudeRequestIn(ledger,
        [request EXCEPT !.forwardThoughtSignatures = forward,
                        !.signatureSegmentStartIndex = start])

\* A call of transformClaudeRequestIn with signatureSegmentStartIndex = k.
SegmentedCall ==
    /\ mode = "segments" /\ ~reqOut.done /\ reqOut'.done
    /\ reqIn'.signatureSegmentStartIndex >= 0

C13_Step ==
    SegmentedCall =>
        \A m \in DOMAIN reqOut'.perMessage :
            IF m - 1 < reqIn'.signatureSegmentStartIndex
            THEN /\ NoTokenNoThought(reqOut'.perMessage[m])
                 /\ reqOut'.perMessage[m]
                        = TranscodedWith(toolThoughtSignatures, reqIn', FALSE, -1).perMessage[m]
            ELSE reqOut'.perMessage[m]
                     = TranscodedWith(toolThoughtSignatures, reqIn',
                                      reqIn'.forwardThoughtSignatures, -1).perMessage[m]

\* C13: in a call with signatureSegmentStartIndex = k, no part made from a
\* message with index < k carries a token or thought=true, whatever the
\* item, a preceding reasoning item or the ledger would supply: these
\* messages are transcoded as with forwarding disabled (reasoning becomes
\* plain text); the messages with index >= k are transcoded as without the
\* option.
C13_SegmentIsolation == [][C13_Step]_vars

\* A call with start index 1 on a seeded ledger: message 0 holds a reasoning
\* item with a token and a tool_use without one, and gets no token; message
\* 1 gets a token on a part.
C13_Witness ==
    /\ mode = "segments" /\ reqOut.done
    /\ reqIn.forwardThoughtSignatures /\ reqIn.signatureSegmentStartIndex = 1
    /\ toolThoughtSignatures # EmptyLedger
    /\ \E i \in DOMAIN reqIn.messages[1].content :
          reqIn.messages[1].content[i].type = "thinking"
          /\ reqIn.messages[1].content[i].sig # NoSig
          /\ reqIn.messages[1].content[i].text # EmptyText
    /\ \E i \in DOMAIN reqIn.messages[1].content :
          reqIn.messages[1].content[i].type = "tool_use"
          /\ reqIn.messages[1].content[i].sig = NoSig
    /\ Len(reqOut.perMessage[1]) = 2
    /\ NoTokenNoThought(reqOut.perMessage[1])
    /\ \E j \in DOMAIN reqOut.perMessage[2] : reqOut.perMessage[2][j].thoughtSignature # NoSig

(***************************************************************************)
(* Properties of the ledger across turns                                   *)
(***************************************************************************)
\* Item i leaves its token pending: a token-only carrier, or a reasoning
\* item with text that is not discarded.
SetsPending(i) ==
    /\ Items[i].type = "thinking" /\ Items[i].sig # NoSig
    /\ (Items[i].text = EmptyText \/ ~\E h \in 1..(i - 1) : MakesOtherPart(h))

\* The items before item k whose token is still pending at item k: no
\* tool_use item lies between (a text item takes no pending token in a
\* message that holds a tool_use item).
PendingBefore(k) ==
    { i \in 1..(k - 1) : SetsPending(i)
                         /\ \A h \in (i + 1)..(k - 1) : Items[h].type # "tool_use" }

Latest(S) == CHOOSE i \in S : \A h \in S : h <= i

\* The token the function-call part of tool_use item k must carry when the
\* response emitted the token S for its id.
ExpectedToken(k, S) ==
    IF Items[k].sig # NoSig THEN Items[k].sig
    ELSE IF PendingBefore(k) # {} THEN Items[Latest(PendingBefore(k))].sig
    ELSE S

\* C14: after a response (streaming or not) has emitted the tool invocation
\* T with the token S that the backend sent on it, a later request with
\* forwarding enabled that replays T carries on T's functionCall part the
\* token of the tool_use item if the client echoed one, else the pending
\* token of the preceding reasoning item if there is one, else S from the
\* ledger, unmodified.
C14_LedgerBridging ==
    (Replayed /\ Forwarding) =>
        \A k \in DOMAIN Items, b \in DOMAIN OutBlocks :
            (/\ Items[k].type = "tool_use"
             /\ OutBlocks[b].type = "tool_use"
             /\ OutBlocks[b].tool.id = Items[k].tool.id
             /\ OutBlocks[b].sig # NoSig)
                => /\ \E i \in DOMAIN inParts :
                          /\ inParts[i].kind = "fc" /\ inParts[i].id = Items[k].tool.id
                          /\ inParts[i].sig = OutBlocks[b].sig
                   /\ \E j \in DOMAIN BackendParts :
                          /\ BackendParts[j].kind = "functionCall"
                          /\ BackendParts[j].tool.id = Items[k].tool.id
                          /\ BackendParts[j].thoughtSignature
                                 = ExpectedToken(k, OutBlocks[b].sig)

\* A replay that does not echo the token of a tool invocation, with no
\* reasoning token pending, after a response that emitted the invocation with
\* a token: the functionCall part carries it.
C14_Witness ==
    /\ Replayed /\ Forwarding
    /\ \E k \in DOMAIN Items, b \in DOMAIN OutBlocks, j \in DOMAIN BackendParts :
          /\ Items[k].type = "tool_use" /\ Items[k].sig = NoSig
          /\ PendingBefore(k) = {}
          /\ OutBlocks[b].type = "tool_use" /\ OutBlocks[b].tool.id = Items[k].tool.id
          /\ OutBlocks[b].sig # NoSig
          /\ BackendParts[j].kind = "functionCall"
          /\ BackendParts[j].tool.id = Items[k].tool.id
          /\ BackendParts[j].thoughtSignature = OutBlocks[b].sig

\* The same with a reasoning token pending: the functionCall part carries
\* the reasoning token, not the ledger's.
C14_WitnessPending ==
    /\ Replayed /\ Forwarding
    /\ \E k \in DOMAIN Items, b \in DOMAIN OutBlocks, j \in DOMAIN BackendParts :
          /\ Items[k].type = "tool_use" /\ Items[k].sig = NoSig
          /\ PendingBefore(k) # {}
          /\ OutBlocks[b].type = "tool_use" /\ OutBlocks[b].tool.id = Items[k].tool.id
          /\ OutBlocks[b].sig # NoSig
          /\ BackendParts[j].kind = "functionCall"
          /\ BackendParts[j].tool.id = Items[k].tool.id
          /\ BackendParts[j].thoughtSignature # OutBlocks[b].sig

(***************************************************************************)
(* Properties of the suppression of echoed task text                       *)
(***************************************************************************)
EchoDone == mode = "echo" /\ reqOut.done
ResultItems == reqIn.messages[3].content
ResultParts == reqOut.perMessage[3]

\* The text of the user's task in the first message.
TaskText ==
    IF reqIn.messages[1].isString THEN reqIn.messages[1].text
    ELSE reqIn.messages[1].content[1].text

\* Item k is a text item with text to emit.
IsUserText(k) == ResultItems[k].type = "text" /\ ~IsSkippedText(ResultItems[k].text)

\* The most recent user text before item k: the latest text item before it
\* in the message, else the task text of the first message (EmptyText when
\* there is none).
EarlierTexts(k) == { j \in 1..(k - 1) : IsUserText(j) }
LastTaskText(k) ==
    IF EarlierTexts(k) # {} THEN ResultItems[Latest(EarlierTexts(k))].text ELSE TaskText

\* The texts of the text items that are not omitted, in order.
RECURSIVE KeptTexts(_, _)
KeptTexts(omitted, k) ==
    IF k > Len(ResultItems) THEN << >>
    ELSE (IF IsUserText(k) /\ ~omitted[k] THEN <<ResultItems[k].text>> ELSE << >>)
         \o KeptTexts(omitted, k + 1)

TextPartsOf(parts) == TextsOf(SelectSeq(parts, LAMBDA p : p.kind = "text"))

\* Item k comes right after a tool_result item.
FollowsToolResult(k) == k > 1 /\ ResultItems[k - 1].type = "tool_result"

AfterToolResult(k) ==
    \E j \in 1..(k - 1) :
        /\ ResultItems[j].type = "tool_result"
        /\ \A h \in (j + 1)..(k - 1) :
              ResultItems[h].type = "text" /\ IsSkippedText(ResultItems[h].text)

Key(p) == p.text[1]
Emitting == { Key(BackendParts[j]) : j \in DOMAIN BackendParts }
PartOfItem(n) == BackendParts[CHOOSE j \in DOMAIN BackendParts : Key(BackendParts[j]) = n]

\* The part of item n is an inlineData part that came right after a
\* functionResponse part, or after the inlineData parts right after one.
Attached(n) ==
    /\ PartOfItem(n).kind = "inlineData"
    /\ \E m \in Emitting :
          /\ m < n /\ PartOfItem(m).kind = "functionResponse"
          /\ \A h \in Emitting : (m < h /\ h < n) => PartOfItem(h).kind = "inlineData"

Leading(n) == PartOfItem(n).kind = "functionResponse" \/ Attached(n)

\* The parts of the same items in a message that is not reordered (the
\* message with the role assistant), as kinds and texts.
KindAndText(parts) == [j \in DOMAIN parts |-> <<parts[j].kind, parts[j].text>>]
Unordered ==
    KindAndText(transformClaudeRequestIn(EmptyLedger,
        [reqIn EXCEPT !.messages[1].role = "assistant"]).perMessage[1])

Range(seq) == { seq[j] : j \in DOMAIN seq }

\* C16: a user backend message holds the parts of its items, each once; the
\* functionResponse parts, each with the inlineData parts that came right
\* after it, precede all other parts, and inside both groups the parts are
\* in the order of their items; without functionResponse parts the parts
\* are in the order of their items.
C16_ToolResultsFirst ==
    (RequestDone /\ Message.role = "user" /\ ~Message.isString) =>
        /\ Len(BackendParts) = Len(Unordered)
        /\ Range(KindAndText(BackendParts)) = Range(Unordered)
        /\ \A a, b \in DOMAIN BackendParts :
              a < b =>
                  IF Leading(Key(BackendParts[a])) = Leading(Key(BackendParts[b]))
                  THEN Key(BackendParts[a]) < Key(BackendParts[b])
                  ELSE Leading(Key(BackendParts[a]))

\* The user message [text, tool_result, image] has been transcoded: the
\* functionResponse part and its inlineData part come before the text part.
C16_Witness ==
    /\ RequestDone /\ Message.role = "user" /\ Len(Items) = 3
    /\ Items[1].type = "text" /\ Items[2].type = "tool_result" /\ Items[3].type = "image"
    /\ Len(BackendParts) = 3
    /\ BackendParts[1].kind = "functionResponse"
    /\ BackendParts[2].kind = "inlineData"
    /\ BackendParts[3].kind = "text"

(***************************************************************************)
(* Properties of the bridge in the request transcoder                      *)
(***************************************************************************)
\* The bridge is active for the call: enabled, with a declared bridged tool.
BridgeActive ==
    /\ mode = "bridge" /\ reqOut.done
    /\ reqIn.bridge
    /\ \E i \in DOMAIN reqIn.tools : isMcpToolName(reqIn.tools[i].name)

\* All parts of the backend request.
AllParts == UNION { Range(reqOut.perMessage[m]) : m \in DOMAIN reqOut.perMessage }

\* The id of a bridged call of the history.
BridgedIds ==
    { it.tool.id : it \in { x \in Range(reqIn.messages[1].content) :
                               x.type = "tool_use" /\ isMcpToolName(x.tool.name) } }

\* Part p is a text part with the markup of the call or result of item it.
IsMarkupOf(p, it, xml) ==
    /\ p.kind = "text" /\ ~p.thought /\ p.xml = xml
    /\ p.text = it.text /\ p.tool.id = it.tool.id

\* C17: when the bridge is enabled and a tool with the prefix mcp__ is
\* declared, the backend request holds no function declaration, no
\* functionCall part and no functionResponse part with a name that starts
\* with mcp__; every call of such a tool in the history is a text part with
\* the call markup and every result of such a call is a text part with the
\* result markup.
C17_NoBridgedNames ==
    BridgeActive =>
        /\ \A d \in Range(reqOut.functionDeclarations) : ~isMcpToolName(d.name)
        /\ \A p \in AllParts :
              p.kind \in {"functionCall", "functionResponse"} => ~isMcpToolName(p.tool.name)
        /\ \A it \in Range(reqIn.messages[1].content) :
              (it.type = "tool_use" /\ isMcpToolName(it.tool.name))
                  => \E p \in Range(reqOut.perMessage[1]) : IsMarkupOf(p, it, "call")
        /\ \A it \in Range(reqIn.messages[2].content) :
              (it.type = "tool_result" /\ it.tool.id \in BridgedIds)
                  => \E p \in Range(reqOut.perMessage[2]) : IsMarkupOf(p, it, "result")

\* A request that declares a native and a bridged tool, with a history that
\* calls both and holds both results, has been transcoded with the bridge
\* enabled: one declaration, one functionCall part, one functionResponse
\* part, and the bridged call and result as text.
C17_Witness ==
    /\ BridgeActive
    /\ Len(reqIn.tools) = 2
    /\ Len(reqOut.functionDeclarations) = 1
    /\ \E p \in Range(reqOut.perMessage[1]) : p.kind = "functionCall"
    /\ \E p \in Range(reqOut.perMessage[1]) : p.kind = "text" /\ p.xml = "call"
    /\ \E p \in Range(reqOut.perMessage[2]) : p.kind = "functionResponse"
    /\ \E p \in Range(reqOut.perMessage[2]) : p.kind = "text" /\ p.xml = "result"

(***************************************************************************)
(* The bridge tokenizer: createMcpXmlStreamParser.                         *)
(*                                                                         *)
(* A text is a sequence of characters; " " is the white space.  An event   *)
(* is [type |-> "text", text] or [type |-> "tool", name, input, xml]:      *)
(* input is the text the input object is parsed from (the trimmed inner    *)
(* text of the markup) and xml (ghost) is the markup the event was made    *)
(* from.  Indexes are 1-based, and 0 stands for JavaScript's -1.           *)
(***************************************************************************)
isSpace(ch) == ch = " "

StartsWithAt(text, needle, i) ==
    /\ i >= 1 /\ i + Len(needle) - 1 <= Len(text)
    /\ SubSeq(text, i, i + Len(needle) - 1) = needle

Occurrences(text, needle, from) ==
    { i \in from..Len(text) : StartsWithAt(text, needle, i) }

Least(S) == CHOOSE i \in S : \A h \in S : i <= h

\* text.indexOf(needle, from)
indexOf(text, needle, from) ==
    IF Occurrences(text, needle, from) = {} THEN 0
    ELSE Least(Occurrences(text, needle, from))

\* text.lastIndexOf(needle)
lastIndexOf(text, needle) ==
    IF Occurrences(text, needle, 1) = {} THEN 0
    ELSE Latest(Occurrences(text, needle, 1))

\* raw.lastIndexOf("<")
lastLt(raw) == lastIndexOf(raw, <<"<">>)

openOf(name) == <<"<">> \o name
closeOf(name) == <<"<", "/">> \o name

IsPrefixOf(frag, text) == Len(frag) <= Len(text) /\ SubSeq(text, 1, Len(frag)) = frag

isPossibleToolTagPrefix(frag, nameSet) ==
    /\ frag # << >> /\ frag[1] = "<"
    /\ \E name \in nameSet :
          IsPrefixOf(frag, openOf(name)) \/ IsPrefixOf(frag, closeOf(name))

\* A splitBufferForPartialTag that holds nothing back.
emitWholeBuffer(raw, nameSet) == [emit |-> raw, keep |-> << >>]

\* splitBufferForPartialTag: [emit, keep]
splitBufferForPartialTag(raw, nameSet) ==
    IF lastLt(raw) # 0
       /\ isPossibleToolTagPrefix(SubSeq(raw, lastLt(raw), Len(raw)), nameSet)
    THEN [emit |-> SubSeq(raw, 1, lastLt(raw) - 1),
          keep |-> SubSeq(raw, lastLt(raw), Len(raw))]
    ELSE [emit |-> raw, keep |-> << >>]

\* The indexes where an open tag of `name` starts: "<name" followed by ">",
\* "/" or white space.
ToolStarts(text, name) ==
    { i \in Occurrences(text, openOf(name), 1) :
        /\ i + Len(name) + 1 <= Len(text)
        /\ (text[i + Len(name) + 1] \in {">", "/"} \/ isSpace(text[i + Len(name) + 1])) }

\* findNextToolStartIndex: [index, name] of the first open tag, index 0 if
\* there is none (of two names at the same index the longer wins).
findNextToolStartIndex(text, nameSet) ==
    IF \A name \in nameSet : ToolStarts(text, name) = {}
    THEN [index |-> 0, name |-> << >>]
    ELSE LET best == Least(UNION { ToolStarts(text, name) : name \in nameSet })
         IN  [index |-> best,
              name |-> CHOOSE name \in nameSet :
                          /\ best \in ToolStarts(text, name)
                          /\ \A other \in nameSet :
                                best \in ToolStarts(text, other) => Len(other) <= Len(name)]

AllSpace(text) == \A i \in DOMAIN text : isSpace(text[i])

\* findCloseTagEndIndex: the index of the ">" that ends the first close tag
\* of toolName at or after `from`, 0 if there is none or it is incomplete.
RECURSIVE findCloseTagEndIndex(_, _, _)
findCloseTagEndIndex(src, toolName, from) ==
    LET idx == indexOf(src, closeOf(toolName), from)
        after == idx + Len(toolName) + 2
        gt == indexOf(src, <<">">>, after)
    IN  IF idx = 0 THEN 0
        ELSE IF after > Len(src) THEN 0
        ELSE IF ~(src[after] = ">" \/ isSpace(src[after]))
        THEN findCloseTagEndIndex(src, toolName, idx + 1)
        ELSE IF gt = 0 THEN 0
        ELSE IF ~AllSpace(SubSeq(src, after, gt - 1))
        THEN findCloseTagEndIndex(src, toolName, idx + 1)
        ELSE gt

\* text.trim()
RECURSIVE trimStart(_)
trimStart(text) ==
    IF text # << >> /\ isSpace(Head(text)) THEN trimStart(Tail(text)) ELSE text
RECURSIVE trimEnd(_)
trimEnd(text) ==
    IF text # << >> /\ isSpace(text[Len(text)])
    THEN trimEnd(SubSeq(text, 1, Len(text) - 1)) ELSE text
trim(text) == trimEnd(trimStart(text))

TextEvent(text) == [type |-> "text", text |-> text]
ToolEvent(name, input, xml) == [type |-> "tool", name |-> name, input |-> input, xml |-> xml]

\* The length of the match of openRe, /^<name(?:\s[^>]*)?>/, 0 without match.
openMatchLength(text, name) ==
    IF ~IsPrefixOf(openOf(name), text) \/ Len(text) <= Len(name) + 1 THEN 0
    ELSE IF text[Len(name) + 2] = ">" THEN Len(name) + 2
    ELSE IF isSpace(text[Len(name) + 2]) THEN indexOf(text, <<">">>, Len(name) + 2)
    ELSE 0

\* closeRe, /<\/name\s*>$/
closeMatches(text, name) ==
    \E i \in Occurrences(text, closeOf(name), 1) :
        /\ text # << >> /\ text[Len(text)] = ">"
        /\ AllSpace(SubSeq(text, i + Len(name) + 2, Len(text) - 1))

\* tryParseMcpToolCallXml: the event made from the markup xml, a text event
\* when it does not parse.
parsedEvent(xml, name) ==
    IF /\ openMatchLength(trim(xml), name) # 0
       /\ closeMatches(trim(xml), name)
       /\ lastIndexOf(trim(xml), closeOf(name)) > openMatchLength(trim(xml), name)
    THEN ToolEvent(name,
                   trim(SubSeq(trim(xml), openMatchLength(trim(xml), name) + 1,
                               lastIndexOf(trim(xml), closeOf(name)) - 1)),
                   xml)
    ELSE TextEvent(xml)

\* The text before the open tag at `index`, as an event.
textBefore(buffer, index) ==
    IF index > 1 THEN <<TextEvent(SubSeq(buffer, 1, index - 1))>> ELSE << >>

\* "index === -1": emit what cannot be the start of a tag, keep the rest.
emitSplit(split, out) ==
    [buffer |-> split.keep,
     out |-> out \o (IF split.emit # << >> THEN <<TextEvent(split.emit)>> ELSE << >>)]

\* The loop of pushText on the buffer: [buffer, out] when it breaks.
RECURSIVE parseBuffer(_, _, _)
RECURSIVE parseTool(_, _, _, _, _)
parseTool(buffer, out, name, closeEnd, nameSet) ==
    IF closeEnd = 0 THEN [buffer |-> buffer, out |-> out]
    ELSE parseBuffer(SubSeq(buffer, closeEnd + 1, Len(buffer)),
                     out \o <<parsedEvent(SubSeq(buffer, 1, closeEnd), name)>>,
                     nameSet)

parseFrom(buffer, out, start, nameSet) ==
    IF start.index = 0
    THEN emitSplit(splitBufferForPartialTag(buffer, nameSet), out)
    ELSE parseTool(SubSeq(buffer, start.index, Len(buffer)),
                   out \o textBefore(buffer, start.index),
                   start.name,
                   findCloseTagEndIndex(SubSeq(buffer, start.index, Len(buffer)),
                                        start.name, 1),
                   nameSet)

parseBuffer(buffer, out, nameSet) ==
    parseFrom(buffer, out, findNextToolStartIndex(buffer, nameSet), nameSet)

\* pushText(text) on the buffer: [buffer, out]
pushText(buffer, text, nameSet) ==
    IF text = << >> THEN [buffer |-> buffer, out |-> << >>]
    ELSE parseBuffer(buffer \o text, << >>, nameSet)

\* A flush that discards the buffer.
discardBuffer(buffer) == [buffer |-> << >>, out |-> << >>]

\* flush()
flush(buffer) ==
    [buffer |-> << >>,
     out |-> IF buffer # << >> THEN <<TextEvent(buffer)>> ELSE << >>]

\* The events a caller has received, adjacent text events concatenated.
RECURSIVE concatAdjacentText(_)
concatAdjacentText(events) ==
    IF Len(events) < 2 THEN events
    ELSE IF events[1].type = "text" /\ events[2].type = "text"
    THEN concatAdjacentText(<<TextEvent(events[1].text \o events[2].text)>>
                            \o SubSeq(events, 3, Len(events)))
    ELSE <<events[1]>> \o concatAdjacentText(Tail(events))

MaxPieces == 4              \* pieces of markup and text per input of the tokenizer

\* Declared names: "a" alone, or "a" and "ax" (one a prefix of the other).
NameSets == { {<<"a">>}, {<<"a">>, <<"a", "x">>} }

\* The pieces an input is made of: the open tag of "a", cut tags, ">", "/",
\* a payload character and the white space.
Pieces ==
    { <<"<", "a", ">">>, <<"<", "a">>, <<"<", "/", "a">>,
      <<">">>, <<"/">>, <<"x">>, <<" ">> }

RECURSIVE InputTexts(_)
InputTexts(n) ==
    IF n = 0 THEN { << >> }
    ELSE InputTexts(n - 1) \cup { t \o p : t \in InputTexts(n - 1), p \in Pieces }

ParserInit ==
    /\ mode = "parser"
    /\ state = NewStreamingState
    /\ inParts = << >>
    /\ nLines = 0
    /\ lastLine = "none"
    /\ toolThoughtSignatures = EmptyLedger
    /\ nsResult = NoResult
    /\ reqIn = NoReq
    /\ reqOut = NoReq
    /\ switch = NoSwitch
    /\ \E nameSet \in NameSets, input \in InputTexts(MaxPieces) :
         parser = [NoParser EXCEPT !.nameSet = nameSet, !.input = input]

\* The parser after a call that returned r.out and left the buffer r.buffer;
\* split (ghost) says that a call of pushText ended before the end of the text,
\* so that the text is pushed in two or more chunks.
Parsed(r, pos, flushed) ==
    /\ parser' = [parser EXCEPT !.pos = pos, !.buffer = r.buffer, !.flushed = flushed,
                                !.events = concatAdjacentText(@ \o r.out),
                                !.split = @ \/ pos < Len(parser.input)]
    /\ UNCHANGED <<mode, state, inParts, nLines, lastLine, toolThoughtSignatures,
                   nsResult, reqIn, reqOut, switch>>

\* pushText on the next chunk of the stream, of any length.
PushText ==
    /\ mode = "parser" /\ ~parser.flushed
    /\ \E n \in 1..(Len(parser.input) - parser.pos) :
         Parsed(pushText(parser.buffer,
                         SubSeq(parser.input, parser.pos + 1, parser.pos + n),
                         parser.nameSet),
                parser.pos + n, FALSE)

\* flush at the end of the stream
Flush ==
    /\ mode = "parser" /\ ~parser.flushed
    /\ parser.pos = Len(parser.input)
    /\ Parsed(flush(parser.buffer), parser.pos, TRUE)

ParserNext ==
    \/ PushText
    \/ Flush

ParserSpec == ParserInit /\ [][ParserNext]_vars

(***************************************************************************)
(* Properties of the bridge tokenizer                                      *)
(***************************************************************************)
Flushed == mode = "parser" /\ parser.flushed

\* The events of pushText on the whole text as one chunk, then flush.
SingleChunk(input, nameSet) ==
    concatAdjacentText(pushText(<< >>, input, nameSet).out
                       \o flush(pushText(<< >>, input, nameSet).buffer).out)

\* The well-formed call markup of "a" with the given inner text.
CallMarkup(inner) == <<"<", "a", ">">> \o inner \o <<"<", "/", "a", ">">>
Payloads == { << >>, <<"x">>, <<" ">>, <<"x", "x">>, <<" ", "x">>, <<"x", " ">> }

\* C18: whatever the chunks the text was pushed in, the events of the calls
\* of pushText and of the final flush are, adjacent text events
\* concatenated, the events of pushing the text as a single chunk; a
\* well-formed call markup of a declared name yields exactly one tool event,
\* with that name and the trimmed inner text as its input.
C18_ChunkingInvariance ==
    Flushed =>
        /\ parser.events = SingleChunk(parser.input, parser.nameSet)
        /\ \A inner \in Payloads :
              parser.input = CallMarkup(inner)
                  => parser.events = <<ToolEvent(<<"a">>, trim(inner), parser.input)>>

\* The text <a></a>x was pushed in two or more chunks and flushed: one tool
\* event and a text event.
C18_Witness ==
    /\ Flushed /\ parser.split
    /\ parser.input = CallMarkup(<< >>) \o <<"x">>
    /\ parser.events = <<ToolEvent(<<"a">>, << >>, CallMarkup(<< >>)), TextEvent(<<"x">>)>>

\* The characters an event stands for.
SourceOf(e) == IF e.type = "text" THEN e.text ELSE e.xml
Sources(events) == Concat([i \in DOMAIN events |-> SourceOf(events[i])])

\* Markup xml is a complete matched tag pair of name: an open tag "<name",
\* closed by ">" at once or after white space and attributes, and at its
\* end the close tag "</name", white space, ">".
IsTagPair(xml, name) ==
    /\ openMatchLength(xml, name) # 0
    /\ \E i \in Occurrences(xml, closeOf(name), openMatchLength(xml, name) + 1) :
          /\ xml[Len(xml)] = ">"
          /\ AllSpace(SubSeq(xml, i + Len(name) + 2, Len(xml) - 1))

\* C19: at any time the text events and the markup of the tool events, in
\* order, followed by the buffer, are the characters pushed so far, each
\* once; a tool event is made only from a complete matched tag pair of a
\* declared name, so every other character is in a text event; after flush
\* the buffer is empty.
C19_NothingLost ==
    mode = "parser" =>
        /\ Sources(parser.events) \o parser.buffer = SubSeq(parser.input, 1, parser.pos)
        /\ \A i \in DOMAIN parser.events :
              parser.events[i].type = "tool"
                  => /\ parser.events[i].name \in parser.nameSet
                     /\ IsTagPair(parser.events[i].xml, parser.events[i].name)
        /\ parser.flushed => parser.buffer = << >> /\ parser.pos = Len(parser.input)

\* The text </a><a>x was pushed and flushed: the unmatched close tag and the
\* unclosed open tag came out as literal text.
C19_Witness ==
    /\ Flushed
    /\ parser.input = <<"<", "/", "a", ">", "<", "a", ">", "x">>
    /\ parser.events = <<TextEvent(parser.input)>>
    /\ parser.buffer = << >>


(***************************************************************************)
(* The substitute-model retry of /v1/messages (mode "switch")              *)
(*                                                                         *)
(* A model name is a tuple of strings whose first element is the family    *)
(* ("claude", "gemini"); NoName stands for null and undefined.             *)
(***************************************************************************)
ClaudeSonnet == <<"claude", "-", "sonnet-4-5">>
ClaudeOpus == <<"claude", "-", "opus-4-5">>
ClaudeOpusThinking == <<"claude", "-", "opus-4-5-thinking">>
ClaudeHaiku == <<"claude", "-", "haiku-4-5">>
GeminiFlash == <<"gemini", "-", "3-flash">>

\* String(model).startsWith("claude")
startsWithClaude(model) == model # NoName /\ model[1] = "claude"

\* AG2API_CLAUDE_MODEL_MAP as a set of pairs <<inbound, upstream>>: unset, or
\* the documented mapping of claude-haiku-4-5 to gemini-3-flash.
EnvMaps == { {}, { <<ClaudeHaiku, GeminiFlash>> } }

mapClaudeModelFromEnv(model, envMap) ==
    IF \E p \in envMap : p[1] = model
    THEN (CHOOSE p \in envMap : p[1] = model)[2]
    ELSE NoName

supportedModels == { ClaudeOpusThinking, ClaudeSonnet, GeminiFlash }

mapClaudeModelToGemini(model, envMap) ==
    IF model = NoName THEN NoName
    ELSE IF mapClaudeModelFromEnv(model, envMap) # NoName
    THEN mapClaudeModelFromEnv(model, envMap)
    ELSE IF model \in supportedModels THEN model
    ELSE IF model = ClaudeOpus THEN ClaudeOpusThinking
    ELSE NoName

\* A system item is the model ID its text names ("The exact model ID is X."),
\* or NoName when the text names none.
inferClaudeCodeModelFromSystem(system) ==
    LET named == { i \in DOMAIN system :
                     /\ Len(system[i]) >= 2
                     /\ system[i][1] = "claude" /\ system[i][2] = "-" }
    IN  IF named = {} THEN NoName ELSE system[Least(named)]

hasMcpTools(tools) == \E i \in DOMAIN tools : isMcpToolName(tools[i].name)

\* The index of the last assistant message, 0 when there is none.
lastAssistantIndex(messages) ==
    LET assistants == { i \in DOMAIN messages : messages[i].role = "assistant" }
    IN  IF assistants = {} THEN 0 ELSE CHOOSE i \in assistants : \A h \in assistants : h <= i

\* The tool_use_id of the tool_result items after the last assistant message;
\* an item without a tool_use_id (id 0) adds nothing.
collectToolResultIdsAfterLastAssistant(messages) ==
    UNION { { messages[i].content[j].tool.id :
                j \in { h \in DOMAIN messages[i].content :
                          /\ messages[i].content[h].type = "tool_result"
                          /\ messages[i].content[h].tool.id # 0 } } :
            i \in { h \in DOMAIN messages :
                      h > lastAssistantIndex(messages) /\ ~messages[h].isString } }

hasAnyToolResultTurn(messages) == collectToolResultIdsAfterLastAssistant(messages) # {}

\* sessionState: { lastFamily, mcpStartIndex, foldedSegments }; the index -1
\* stands for null.  Message indexes of the session state count from 0, as in
\* the code, so that messages[i] of the code is messages[i + 1] here.
NewSessionState == [lastFamily |-> "null", mcpStartIndex |-> -1, foldedSegments |-> << >>]

\* sessionMcpState: a map from session ids to session states
NoSessions == [id \in {} |-> NewSessionState]

\* getSessionId: metadata.user_id, "" when there is none
hasSession(requestData) == requestData.sessionId # ""

\* An ensureSessionState that keeps a state for requests without session id
\* too.
ensureSessionStateForAll(sessionMcpState, requestData) ==
    IF requestData.sessionId \in DOMAIN sessionMcpState
    THEN sessionMcpState
    ELSE [id \in DOMAIN sessionMcpState \cup {requestData.sessionId} |->
            IF id \in DOMAIN sessionMcpState THEN sessionMcpState[id] ELSE NewSessionState]

ensureSessionState(sessionMcpState, requestData) ==
    IF ~hasSession(requestData) \/ requestData.sessionId \in DOMAIN sessionMcpState
    THEN sessionMcpState
    ELSE [id \in DOMAIN sessionMcpState \cup {requestData.sessionId} |->
            IF id \in DOMAIN sessionMcpState THEN sessionMcpState[id] ELSE NewSessionState]

\* sessionState?.mcpStartIndex
mcpStartIndexOf(sessionMcpState, requestData) ==
    IF hasSession(requestData) /\ requestData.sessionId \in DOMAIN sessionMcpState
    THEN sessionMcpState[requestData.sessionId].mcpStartIndex
    ELSE -1

\* The tool_use items of the history that this turn's tool_results answer, as
\* pairs <<message index, item index>>.
matchedToolUses(messages) ==
    { p \in (DOMAIN messages) \X (1..MaxItems) :
        /\ messages[p[1]].role = "assistant" /\ ~messages[p[1]].isString
        /\ p[2] \in DOMAIN messages[p[1]].content
        /\ messages[p[1]].content[p[2]].type = "tool_use"
        /\ messages[p[1]].content[p[2]].tool.id
               \in collectToolResultIdsAfterLastAssistant(messages) }

\* isMcpToolResultTurn that looks at the name of the tool only.
isMcpToolResultTurnByName(messages, mcpStartIndex) ==
    /\ collectToolResultIdsAfterLastAssistant(messages) # {}
    /\ \/ \E p \in matchedToolUses(messages) :
            isMcpToolName(messages[p[1]].content[p[2]].tool.name)
       \/ matchedToolUses(messages) = {} /\ mcpStartIndex # -1

\* A tool_result turn goes to the substitute model when a tool_use it answers
\* names a bridged tool or lies in the open segment, and, when no tool_use is
\* found, when a segment is open.
isMcpToolResultTurn(messages, mcpStartIndex) ==
    /\ collectToolResultIdsAfterLastAssistant(messages) # {}
    /\ \/ \E p \in matchedToolUses(messages) :
            \/ isMcpToolName(messages[p[1]].content[p[2]].tool.name)
            \/ mcpStartIndex # -1 /\ p[1] - 1 >= mcpStartIndex
       \/ matchedToolUses(messages) = {} /\ mcpStartIndex # -1

\* requestData of POST /v1/messages; messagesIsArray is false for a request
\* without messages.
RequestData(stream, model, system, tools, messages, sessionId) ==
    [stream |-> stream, model |-> model, system |-> system, tools |-> tools,
     messages |-> messages, messagesIsArray |-> TRUE, sessionId |-> sessionId]

baseModelOf(requestData) ==
    IF inferClaudeCodeModelFromSystem(requestData.system) # NoName
    THEN inferClaudeCodeModelFromSystem(requestData.system)
    ELSE requestData.model

Gemini25Flash == <<"gemini", "-", "2.5-flash">>

inferFinalModelForQuota(tools, model, envMap) ==
    IF hasWebSearchTool(tools) THEN Gemini25Flash ELSE mapClaudeModelToGemini(model, envMap)

\* String(model || "").toLowerCase().includes("claude") ? "claude" : "gemini"
familyOf(model) == IF \E i \in DOMAIN model : model[i] = "claude" THEN "claude" ELSE "gemini"

\* text.trim() on a text of the transcoder (0 is white space)
RECURSIVE trimmedStart(_)
trimmedStart(text) ==
    IF text # << >> /\ Head(text) = 0 THEN trimmedStart(Tail(text)) ELSE text

RECURSIVE trimmedEnd(_)
trimmedEnd(text) ==
    IF text # << >> /\ text[Len(text)] = 0 THEN trimmedEnd(SubSeq(text, 1, Len(text) - 1))
    ELSE text

trimmed(text) == trimmedEnd(trimmedStart(text))

RECURSIVE joinTexts(_)
joinTexts(items) ==
    IF items = << >> THEN << >>
    ELSE (IF Head(items).type = "text" THEN Head(items).text ELSE << >>)
         \o joinTexts(Tail(items))

extractTextFromClaudeContent(msg) == IF msg.isString THEN msg.text ELSE joinTexts(msg.content)

\* The trimmed text of the last assistant message of messages[start..end-1]
\* (indexes from 0) that has text, "" when there is none.
RECURSIVE extractLastAssistantText(_, _, _)
extractLastAssistantText(messages, start, end) ==
    IF end <= start \/ end <= 0 THEN << >>
    ELSE IF end > Len(messages) THEN extractLastAssistantText(messages, start, Len(messages))
    ELSE IF /\ messages[end].role = "assistant"
            /\ trimmed(extractTextFromClaudeContent(messages[end])) # << >>
    THEN trimmed(extractTextFromClaudeContent(messages[end]))
    ELSE extractLastAssistantText(messages, start, end - 1)

Segment(start, end, summaryText) == [start |-> start, end |-> end, summaryText |-> summaryText]

McpResultPrefix == <<50>>        \* the text "MCP result:\n"

SummaryMessage(summary) ==
    [role |-> "user", isString |-> FALSE, text |-> EmptyText,
     content |-> <<Item("text", McpResultPrefix \o summary, NoSig, NoTool, 0)>>]

\* The segments sorted by start (a stable selection sort).
RECURSIVE sortedSegments(_)
sortedSegments(segments) ==
    IF segments = << >> THEN << >>
    ELSE LET first == Least({ i \in DOMAIN segments :
                                \A h \in DOMAIN segments : segments[i].start <= segments[h].start })
         IN  <<segments[first]>>
             \o sortedSegments(SubSeq(segments, 1, first - 1)
                               \o SubSeq(segments, first + 1, Len(segments)))

Min(a, b) == IF a <= b THEN a ELSE b
Max(a, b) == IF a >= b THEN a ELSE b

\* foldSegments from message index i (from 0) on, over the sorted segments.
RECURSIVE foldFrom(_, _, _)
foldFrom(messages, sorted, i) ==
    IF sorted = << >> THEN SubSeq(messages, i + 1, Len(messages))
    ELSE SubSeq(messages, i + 1, Min(Head(sorted).start, Len(messages)))
         \o (IF trimmed(Head(sorted).summaryText) # << >>
             THEN <<SummaryMessage(trimmed(Head(sorted).summaryText))>> ELSE << >>)
         \o foldFrom(messages, Tail(sorted), Max(i, Head(sorted).end))

\* A foldSegments that puts the summary in front of the segment and keeps the
\* messages of the segment.
RECURSIVE foldFromKeepingRange(_, _, _)
foldFromKeepingRange(messages, sorted, i) ==
    IF sorted = << >> THEN SubSeq(messages, i + 1, Len(messages))
    ELSE SubSeq(messages, i + 1, Min(Head(sorted).start, Len(messages)))
         \o (IF trimmed(Head(sorted).summaryText) # << >>
             THEN <<SummaryMessage(trimmed(Head(sorted).summaryText))>> ELSE << >>)
         \o foldFromKeepingRange(messages, Tail(sorted), Max(i, Head(sorted).start))

foldSegmentsKeepingRange(messages, segments) ==
    IF messages = << >> \/ segments = << >> THEN messages
    ELSE foldFromKeepingRange(messages,
             sortedSegments(SelectSeq(segments, LAMBDA s : s.start >= 0 /\ s.end > s.start)),
             0)

foldSegments(messages, segments) ==
    IF messages = << >> \/ segments = << >> THEN messages
    ELSE foldFrom(messages,
                  sortedSegments(SelectSeq(segments, LAMBDA s : s.start >= 0 /\ s.end > s.start)),
                  0)

\* prepareMcpContext, in the order of the code.  modelForQuota is the model of
\* the backend call, upstreamModel the model of the request that is transcoded.
isMcpResultTurnOf(requestData, sessionMcpState) ==
    isMcpToolResultTurn(requestData.messages, mcpStartIndexOf(sessionMcpState, requestData))

modelForQuotaOf(requestData, sessionMcpState, mcpModel, envMap) ==
    IF isMcpResultTurnOf(requestData, sessionMcpState) THEN mcpModel
    ELSE inferFinalModelForQuota(requestData.tools, baseModelOf(requestData), envMap)

\* The session state after the fold-back step for a request whose target
\* family is target.
closeSegment(sessionState, messages, target) ==
    IF target = "claude" /\ sessionState.mcpStartIndex # -1
    THEN [sessionState EXCEPT
            !.mcpStartIndex = -1,
            !.foldedSegments =
                IF Max(0, Len(messages) - 1) > Max(0, sessionState.mcpStartIndex)
                THEN Append(@, Segment(Max(0, sessionState.mcpStartIndex),
                                       Max(0, Len(messages) - 1),
                                       extractLastAssistantText(messages,
                                           Max(0, sessionState.mcpStartIndex),
                                           Max(0, Len(messages) - 1))))
                ELSE @]
    ELSE sessionState

foldedSessions(sessionMcpState, requestData, target) ==
    IF hasSession(requestData) /\ requestData.messagesIsArray
    THEN [sessionMcpState EXCEPT ![requestData.sessionId] =
             closeSegment(@, requestData.messages, target)]
    ELSE sessionMcpState

upstreamMessagesOf(sessionMcpState, requestData, target) ==
    IF /\ hasSession(requestData) /\ requestData.messagesIsArray
       /\ target = "claude"
       /\ sessionMcpState[requestData.sessionId].foldedSegments # << >>
    THEN foldSegments(requestData.messages,
                      sessionMcpState[requestData.sessionId].foldedSegments)
    ELSE requestData.messages

\* transformOptions.signatureSegmentStartIndex, -1 when transformOptions is
\* undefined
segmentStartOf(sessionMcpState, requestData, target, upstreamMessages, envMap) ==
    IF /\ startsWithClaude(mapClaudeModelToGemini(baseModelOf(requestData), envMap))
       /\ target = "gemini"
       /\ requestData.messagesIsArray
    THEN (IF mcpStartIndexOf(sessionMcpState, requestData) # -1
          THEN mcpStartIndexOf(sessionMcpState, requestData)
          ELSE Len(upstreamMessages))
    ELSE -1

preparedContext(requestData, sessionMcpState, upstreamMessages, modelForQuota, isMcpResultTurn, mcpModel, envMap) ==
    [baseModel |-> baseModelOf(requestData),
     upstreamModel |-> IF isMcpResultTurn THEN mcpModel ELSE baseModelOf(requestData),
     modelForQuota |-> modelForQuota,
     upstreamMessages |-> upstreamMessages,
     signatureSegmentStartIndex |->
         segmentStartOf(sessionMcpState, requestData, familyOf(modelForQuota),
                        upstreamMessages, envMap),
     sessionMcpState |-> sessionMcpState,
     shouldBufferForSwitch |->
         /\ requestData.stream
         /\ ~hasAnyToolResultTurn(requestData.messages)
         /\ hasMcpTools(requestData.tools)
         /\ startsWithClaude(mapClaudeModelToGemini(baseModelOf(requestData), envMap))]

foldedContext(requestData, ensured, folded, modelForQuota, mcpModel, envMap) ==
    preparedContext(requestData, folded,
                    upstreamMessagesOf(folded, requestData, familyOf(modelForQuota)),
                    modelForQuota, isMcpResultTurnOf(requestData, ensured), mcpModel, envMap)

ensuredContext(requestData, ensured, modelForQuota, mcpModel, envMap) ==
    foldedContext(requestData, ensured,
                  foldedSessions(ensured, requestData, familyOf(modelForQuota)),
                  modelForQuota, mcpModel, envMap)

prepareMcpContext(requestData, sessionMcpState, mcpModel, envMap) ==
    ensuredContext(requestData, ensureSessionState(sessionMcpState, requestData),
                   modelForQuotaOf(requestData,
                                   ensureSessionState(sessionMcpState, requestData),
                                   mcpModel, envMap),
                   mcpModel, envMap)

\* handleMessages without the gate on mcpModel.
contextOfUngated(requestData, sessionMcpState, mcpModel, envMap) ==
    prepareMcpContext(requestData, sessionMcpState, mcpModel, envMap)

\* Without a substitute model prepareMcpContext is not called.
contextOf(requestData, sessionMcpState, mcpModel, envMap) ==
    IF mcpModel # NoName THEN prepareMcpContext(requestData, sessionMcpState, mcpModel, envMap)
    ELSE [baseModel |-> requestData.model, upstreamModel |-> requestData.model,
          modelForQuota |-> inferFinalModelForQuota(requestData.tools, requestData.model,
                                                    envMap),
          upstreamMessages |-> requestData.messages,
          signatureSegmentStartIndex |-> -1,
          sessionMcpState |-> sessionMcpState,
          shouldBufferForSwitch |-> FALSE]

\* updateSessionAfterResponse
updateSessionAfterResponse(sessionState, requestData, baseModel, modelForQuota, mcpModel, envMap) ==
    [sessionState EXCEPT
        !.lastFamily = familyOf(modelForQuota),
        !.mcpStartIndex =
            IF /\ startsWithClaude(mapClaudeModelToGemini(baseModel, envMap))
               /\ modelForQuota = mcpModel
               /\ @ = -1
               /\ requestData.messagesIsArray
            THEN Len(requestData.messages) ELSE @]

(***************************************************************************)
(* The switch hint of the system instruction (claudeTransformerMcp.js).    *)
(* A system text is a sequence of words; a tool name takes the words of    *)
(* its tuple.  The texts hold no commas and no runs of spaces, which the   *)
(* separator cleanup would change.                                         *)
(***************************************************************************)
MCP_SWITCH_SIGNAL == <<83, 84>>

McpSwitchModelHint == <<"hint", "mcp__", "server", "__*", "AG2API_SWITCH_TO_MCP_MODEL">>

RECURSIVE removeAll(_, _)
removeAll(text, name) ==
    IF text = << >> THEN << >>
    ELSE IF IsPrefixOf(name, text)
    THEN removeAll(SubSeq(text, Len(name) + 1, Len(text)), name)
    ELSE <<Head(text)>> \o removeAll(Tail(text), name)

RECURSIVE removeToolNames(_, _)
removeToolNames(text, tools) ==
    IF tools = << >> THEN text
    ELSE removeToolNames(IF isMcpToolName(Head(tools).name)
                         THEN removeAll(text, Head(tools).name) ELSE text,
                         Tail(tools))

\* enabled is isMcpSwitchEnabled()
maybeInjectMcpHintIntoSystemText(text, tools, isClaudeModel, injected, enabled) ==
    IF ~enabled \/ ~isClaudeModel \/ ~hasMcpTools(tools)
       \/ ~(\E i \in DOMAIN text : text[i] = "mcp__")
    THEN [text |-> text, injected |-> injected]
    ELSE IF ~injected
    THEN [text |-> removeToolNames(text, tools) \o <<"\n\n">> \o McpSwitchModelHint,
          injected |-> TRUE]
    ELSE [text |-> removeToolNames(text, tools), injected |-> injected]

\* The parts that transformClaudeRequestIn makes of the system items, with the
\* bridge off (mcpXmlEnabled false).
RECURSIVE systemParts(_, _, _, _, _)
systemParts(system, tools, isClaudeModel, injected, enabled) ==
    IF system = << >> THEN << >>
    ELSE <<maybeInjectMcpHintIntoSystemText(Head(system), tools, isClaudeModel, injected,
                                            enabled).text>>
         \o systemParts(Tail(system), tools, isClaudeModel,
                        maybeInjectMcpHintIntoSystemText(Head(system), tools, isClaudeModel,
                                                         injected, enabled).injected,
                        enabled)

\* A backend call: upstream.callV1Internal(method, { model, queryString,
\* buildBody }), with the body that buildBody makes by transformClaudeRequestIn
\* (r) of the request with the model requestModel.
Call(model, requestModel, requestData, messages, start, r, enabled, envMap) ==
    [model |-> model,
     method |-> IF requestData.stream THEN "streamGenerateContent" ELSE "generateContent",
     messages |-> messages,
     signatureSegmentStartIndex |-> start,
     systemParts |-> systemParts(requestData.system, requestData.tools,
                        startsWithClaude(mapClaudeModelToGemini(requestModel, envMap)),
                        FALSE, enabled),
     contents |-> r.contents,
     perMessage |-> r.perMessage]

(***************************************************************************)
(* Streams.  A text is a sequence of character codes, a chunk a sequence   *)
(* of bytes.  An event of the transcoded stream is one chunk: the UTF-8    *)
(* encoding of its SSE text, which ends with an empty line.                *)
(***************************************************************************)
StreamEvent(type, delta, text, name) ==
    [type |-> type, delta |-> delta, text |-> text, name |-> name]

TextDelta(text) == StreamEvent("content_block_delta", "text_delta", text, NoName)
ThinkingDelta(text) == StreamEvent("content_block_delta", "thinking_delta", text, NoName)
InputJsonDelta(text) == StreamEvent("content_block_delta", "input_json_delta", text, NoName)
ToolUseStart(name) == StreamEvent("content_block_start", "", << >>, name)
\* An event whose data line is not JSON.
NotJson(text) == StreamEvent("", "", text, NoName)

\* The SSE text of an event: 1, 3 and 4 stand for the lines up to the text of
\* a text_delta, a thinking_delta and an input_json_delta, 2 for the lines up
\* to the name of a tool_use block, 5 for the start of a data line that is not
\* JSON; 10 is the line feed.
sseText(event) ==
    IF event.type = "content_block_delta"
    THEN (IF event.delta = "text_delta" THEN <<1>>
          ELSE IF event.delta = "thinking_delta" THEN <<3>> ELSE <<4>>)
         \o event.text \o <<10, 10>>
    ELSE IF event.type = "content_block_start"
    THEN <<2>> \o (IF isMcpToolName(event.name) THEN <<77>> ELSE <<66>>) \o <<10, 10>>
    ELSE <<5>> \o event.text \o <<10, 10>>

\* TextEncoder.encode of one character
utf8(ch) ==
    IF ch < 128 THEN <<ch>>
    ELSE IF ch < 2048 THEN <<192 + (ch \div 64), 128 + (ch % 64)>>
    ELSE <<224 + (ch \div 4096), 128 + ((ch \div 64) % 64), 128 + (ch % 64)>>

RECURSIVE encode(_)
encode(text) == IF text = << >> THEN << >> ELSE utf8(Head(text)) \o encode(Tail(text))

isContinuation(bytes, i) == i <= Len(bytes) /\ bytes[i] >= 128 /\ bytes[i] < 192

\* TextDecoder.decode of whole bytes; an ill-formed sequence gives U+FFFD.
RECURSIVE decode(_)
decode(bytes) ==
    IF bytes = << >> THEN << >>
    ELSE IF Head(bytes) < 128 THEN <<Head(bytes)>> \o decode(Tail(bytes))
    ELSE IF Head(bytes) >= 192 /\ Head(bytes) < 224 /\ isContinuation(bytes, 2)
    THEN <<(Head(bytes) - 192) * 64 + (bytes[2] - 128)>>
         \o decode(SubSeq(bytes, 3, Len(bytes)))
    ELSE IF Head(bytes) >= 224 /\ isContinuation(bytes, 2) /\ isContinuation(bytes, 3)
    THEN <<(Head(bytes) - 224) * 4096 + (bytes[2] - 128) * 64 + (bytes[3] - 128)>>
         \o decode(SubSeq(bytes, 4, Len(bytes)))
    ELSE <<65533>> \o decode(Tail(bytes))

\* The bytes at the end of a chunk that begin a character the chunk does not
\* finish: decode(value, { stream: true }) keeps them for the next chunk.
pendingBytes(bytes) ==
    IF bytes # << >> /\ bytes[Len(bytes)] >= 192 THEN SubSeq(bytes, Len(bytes), Len(bytes))
    ELSE IF /\ Len(bytes) >= 2 /\ bytes[Len(bytes) - 1] >= 224
            /\ isContinuation(bytes, Len(bytes))
    THEN SubSeq(bytes, Len(bytes) - 1, Len(bytes))
    ELSE << >>

\* readStreamToString: the chunks decoded in order, then the final decode().
RECURSIVE readStreamToString(_, _)
readStreamToString(chunks, pending) ==
    IF chunks = << >> THEN decode(pending)
    ELSE decode(SubSeq(pending \o Head(chunks), 1,
                       Len(pending \o Head(chunks))
                       - Len(pendingBytes(pending \o Head(chunks)))))
         \o readStreamToString(Tail(chunks), pendingBytes(pending \o Head(chunks)))

\* streamFromString without TextEncoder: the character codes as bytes.
streamFromStringUnencoded(text) == IF text = << >> THEN << >> ELSE <<text>>

\* streamFromString: one chunk, none for the empty text.
streamFromString(text) == IF text = << >> THEN << >> ELSE <<encode(text)>>

RECURSIVE concatenation(_)
concatenation(chunks) ==
    IF chunks = << >> THEN << >> ELSE Head(chunks) \o concatenation(Tail(chunks))

\* The events of the text split at the empty lines, as hasMcpSwitchSignal
\* parses them: an event whose data JSON.parse rejects is skipped.
RECURSIVE parseEvents(_)
parseEvents(text) ==
    IF Occurrences(text, <<10, 10>>, 1) = {} THEN << >>
    ELSE (IF Head(text) \in {1, 3, 4}
          THEN <<StreamEvent("content_block_delta",
                             IF Head(text) = 1 THEN "text_delta"
                             ELSE IF Head(text) = 3 THEN "thinking_delta"
                             ELSE "input_json_delta",
                             SubSeq(text, 2, Least(Occurrences(text, <<10, 10>>, 1)) - 1),
                             NoName)>>
          ELSE IF Head(text) = 2
          THEN <<ToolUseStart(IF text[2] = 77 THEN McpName ELSE NativeName)>>
          ELSE << >>)
         \o parseEvents(SubSeq(text, Least(Occurrences(text, <<10, 10>>, 1)) + 2, Len(text)))

\* the texts of all deltas, whatever their type
RECURSIVE textOutOfAllDeltas(_)
textOutOfAllDeltas(events) ==
    IF events = << >> THEN << >>
    ELSE (IF Head(events).type = "content_block_delta" THEN Head(events).text ELSE << >>)
         \o textOutOfAllDeltas(Tail(events))

\* A hasMcpSwitchSignal that looks for the marker in every delta.
hasMcpSwitchSignalInAllDeltas(events) ==
    \/ \E i \in DOMAIN events :
         events[i].type = "content_block_start" /\ isMcpToolName(events[i].name)
    \/ Occurrences(textOutOfAllDeltas(events), MCP_SWITCH_SIGNAL, 1) # {}

RECURSIVE textOut(_)
textOut(events) ==
    IF events = << >> THEN << >>
    ELSE (IF Head(events).type = "content_block_delta" /\ Head(events).delta = "text_delta"
          THEN Head(events).text ELSE << >>)
         \o textOut(Tail(events))

\* A tool_use block of a bridged tool is a signal of its own.
hasMcpSwitchSignal(events) ==
    \/ \E i \in DOMAIN events :
         events[i].type = "content_block_start" /\ isMcpToolName(events[i].name)
    \/ Occurrences(textOut(events), MCP_SWITCH_SIGNAL, 1) # {}

\* A headersToObject that keeps the content type only.
headersToObjectContentTypeOnly(headers) ==
    [k \in DOMAIN headers \cap {"content-type"} |-> headers[k]]

\* Response headers as a map from names to values.
headersToObject(headers) ==
    [k \in DOMAIN headers \ {"content-encoding", "content-length"} |-> headers[k]]

\* The headers of a transcoded response.
convertedHeaders(contentType) ==
    [k \in {"Content-Type", "Cache-Control", "Connection"} |->
        IF k = "Content-Type" THEN contentType
        ELSE IF k = "Cache-Control" THEN "no-cache" ELSE "keep-alive"]

\* A body is the stream of an attempt (1: the first call, 2: the retry), raw
\* as the backend sent it, transcoded, or replayed from the buffered text.
Body(kind, attempt, chunks) == [kind |-> kind, attempt |-> attempt, chunks |-> chunks]
ApiResponse(status, headers, body) == [status |-> status, headers |-> headers, body |-> body]
NoResponse == ApiResponse(0, [k \in {} |-> ""], Body("none", 0, << >>))

MaxTurns == 2        \* messages of a request
MaxDeltas == 2       \* events of a transcoded stream

\* A message is the user's task, an assistant turn that calls the native tool 1
\* or the bridged tool 2, or a user turn with a text or with a tool_result for
\* tool 1, for tool 2, or without tool_use_id.
SwitchMessages ==
    { [role |-> "user", isString |-> TRUE, text |-> <<1>>, content |-> << >>] }
    \cup { [role |-> "assistant", isString |-> FALSE, text |-> EmptyText,
            content |-> <<Item("tool_use", <<9>>, NoSig, tool, 0)>>] :
            tool \in { Tool(1, NativeName), Tool(2, McpName) } }
    \cup { [role |-> "user", isString |-> FALSE, text |-> EmptyText, content |-> <<item>>] :
            item \in { Item("text", <<1>>, NoSig, NoTool, 0) }
                     \cup { Item("tool_result", <<8>>, NoSig, Tool(id, NoName), 0) :
                              id \in 0..2 } }

Histories == UNION { [1..n -> SwitchMessages] : n \in 0..MaxTurns }

\* System items: none; one that names the model ID claude-opus-4-5; one that
\* names gemini-3-flash and lists the bridged tool.
Systems == { << >>, <<ClaudeOpus>>, <<GeminiFlash \o McpName>> }

SwitchTools ==
    { << >>, <<DeclaredTool(NativeName, TRUE)>>,
      <<DeclaredTool(NativeName, TRUE), DeclaredTool(McpName, TRUE)>> }

RequestModels == { ClaudeSonnet, ClaudeHaiku, GeminiFlash }

\* getMcpSwitchModel(): AG2API_SWITCH_TO_MCP_MODEL, or null
McpModels == { NoName, GeminiFlash }

\* Requests without a model and requests without messages.
WithoutMessages(requestData) ==
    [requestData EXCEPT !.messages = << >>, !.messagesIsArray = FALSE]

IncompleteRequests ==
    { RequestData(stream, NoName, << >>, tools, messages, "") :
        stream \in BOOLEAN, tools \in SwitchTools,
        messages \in { h \in Histories : Len(h) <= 1 } }
    \cup { WithoutMessages(RequestData(stream, model, << >>, tools, << >>, "")) :
             stream \in BOOLEAN, model \in RequestModels, tools \in SwitchTools }

SwitchRequests ==
    { RequestData(stream, model, system, tools, messages, "") :
        stream \in BOOLEAN, model \in RequestModels, system \in Systems,
        tools \in SwitchTools, messages \in Histories }
    \cup IncompleteRequests

\* The events of a transcoded stream: text deltas with the two halves of the
\* switch signal and with a two-byte character, the start of a tool_use
\* block of the bridged tool and of the native tool, and the switch signal in
\* a reasoning delta, in the input of a tool and in data that is not JSON.
StreamEvents ==
    { TextDelta(<<83>>), TextDelta(<<84>>), TextDelta(<<233>>), ToolUseStart(McpName),
      ToolUseStart(NativeName), ThinkingDelta(MCP_SWITCH_SIGNAL),
      InputJsonDelta(MCP_SWITCH_SIGNAL), NotJson(MCP_SWITCH_SIGNAL) }

TranscodedStreams == UNION { [1..n -> StreamEvents] : n \in 0..MaxDeltas }

\* The transcoded streams of the first attempts of a session: an answer, the
\* marker in two deltas, and a call of the bridged tool.
SessionStreams ==
    { <<TextDelta(<<233>>)>>, <<TextDelta(<<83>>), TextDelta(<<84>>)>>,
      <<ToolUseStart(McpName)>> }

FirstStreams == IF mode = "session" THEN SessionStreams ELSE TranscodedStreams

RECURSIVE chunksOf(_)
chunksOf(events) ==
    IF events = << >> THEN << >>
    ELSE <<encode(sseText(Head(events)))>> \o chunksOf(Tail(events))

\* The transcoded streams of a retry: an answer, and one that holds the switch
\* marker itself.
RetryStreams == { <<TextDelta(<<233>>)>>, <<TextDelta(MCP_SWITCH_SIGNAL)>> }

\* Backend responses that are not ok.
ErrorResponses ==
    { [status |-> 429,
       headers |-> [k \in {"content-type", "content-encoding", "content-length",
                           "retry-after"} |->
                      IF k = "content-type" THEN "application/json"
                      ELSE IF k = "content-encoding" THEN "gzip"
                      ELSE IF k = "content-length" THEN "120" ELSE "5"]],
      [status |-> 500, headers |-> [k \in {"content-type"} |-> "text/plain"]] }

SwitchInit ==
    /\ mode = "switch"
    /\ state = NewStreamingState
    /\ inParts = << >>
    /\ nLines = 0
    /\ lastLine = "none"
    /\ toolThoughtSignatures = EmptyLedger
    /\ nsResult = NoResult
    /\ reqIn = NoReq
    /\ reqOut = NoReq
    /\ parser = NoParser
    /\ switch = NoSwitch

Exchanged(next, ledger) ==
    /\ switch' = next
    /\ toolThoughtSignatures' = ledger
    /\ UNCHANGED <<mode, state, inParts, nLines, lastLine, nsResult, reqIn, reqOut, parser>>

\* handleMessages without requestData: status 400, "Empty request body".
Rejected(sessionMcpState, mcpModel, envMap, nRequests) ==
    Exchanged([NoSwitch EXCEPT !.pc = "returned", !.result = "rejected",
                               !.sessionMcpState = sessionMcpState,
                               !.mcpModel = mcpModel, !.envMap = envMap,
                               !.nRequests = nRequests + 1,
                               !.response = ApiResponse(400,
                                   [k \in {"Content-Type"} |-> "application/json"],
                                   Body("error", 0, << >>))],
              toolThoughtSignatures)

\* handleMessages up to the first upstream.callV1Internal, whose buildBody has
\* transcoded the request (r).
Called(requestData, mcpModel, envMap, context, r, nRequests) ==
    Exchanged([pc |-> "upstream", requestData |-> requestData, mcpModel |-> mcpModel,
               envMap |-> envMap, baseModel |-> context.baseModel,
               upstreamModel |-> context.upstreamModel,
               modelForQuota |-> context.modelForQuota,
               signatureSegmentStartIndex |-> context.signatureSegmentStartIndex,
               shouldBufferForSwitch |-> context.shouldBufferForSwitch,
               sessionMcpState |-> context.sessionMcpState,
               nRequests |-> nRequests + 1,
               calls |-> <<Call(context.modelForQuota, context.upstreamModel, requestData,
                                context.upstreamMessages,
                                context.signatureSegmentStartIndex, r,
                                mcpModel # NoName, envMap)>>,
               firstEvents |-> << >>, firstChunks |-> << >>, retryEvents |-> << >>,
               buffered |-> FALSE, signal |-> FALSE, retried |-> FALSE,
               result |-> "none", response |-> NoResponse],
              r.ledger)

Prepared(requestData, mcpModel, envMap, context, nRequests) ==
    Called(requestData, mcpModel, envMap, context,
           transformClaudeRequestIn(toolThoughtSignatures,
               Request(context.upstreamMessages, TRUE, context.signatureSegmentStartIndex,
                       FALSE)),
           nRequests)

Handle(requestData, sessionMcpState, mcpModel, envMap, nRequests) ==
    Prepared(requestData, mcpModel, envMap,
             contextOf(requestData, sessionMcpState, mcpModel, envMap), nRequests)

HandleMessages ==
    /\ mode = "switch" /\ switch.pc = "idle"
    /\ \E mcpModel \in McpModels, envMap \in EnvMaps :
         \/ \E requestData \in SwitchRequests :
              Handle(requestData, NoSessions, mcpModel, envMap, 0)
         \/ Rejected(NoSessions, mcpModel, envMap, 0)

\* The response headers and body of a transcoded response.
Converted(attempt, kind, chunks) ==
    ApiResponse(200,
                convertedHeaders(IF switch.requestData.stream THEN "text/event-stream"
                                 ELSE "application/json"),
                Body(kind, attempt, chunks))

\* A handler that calls the backend again after a response that is not ok.
UpstreamAnsweredWithRetry ==
    /\ switch.pc = "upstream"
    /\ \/ Exchanged([switch EXCEPT !.pc = "converted"], toolThoughtSignatures)
       \/ \E response \in ErrorResponses :
            Exchanged([switch EXCEPT !.pc = "retry", !.retried = TRUE,
                                     !.calls = Append(@, @[1])],
                      toolThoughtSignatures)

\* The backend answers: a response that is not ok is returned with its status,
\* its headers (headersToObject) and its body; a success is transcoded by
\* transformClaudeResponseOut.
UpstreamAnswered ==
    /\ switch.pc = "upstream"
    /\ \/ Exchanged([switch EXCEPT !.pc = "converted"], toolThoughtSignatures)
       \/ \E response \in ErrorResponses :
            Exchanged([switch EXCEPT !.pc = "returned", !.result = "upstreamError",
                          !.response = ApiResponse(response.status,
                                                   headersToObject(response.headers),
                                                   Body("raw", 1, << >>))],
                      toolThoughtSignatures)

\* The session map after updateSessionAfterResponse.
updatedSessions(sw) ==
    IF hasSession(sw.requestData)
    THEN [sw.sessionMcpState EXCEPT ![sw.requestData.sessionId] =
             updateSessionAfterResponse(@, sw.requestData, sw.baseModel, sw.modelForQuota,
                                        sw.mcpModel, sw.envMap)]
    ELSE sw.sessionMcpState

\* A retry that forwards the tokens of the whole history.
retryStartAtZero(requestData) == 0

\* The retry's buildBody: the request with the substitute model, transcoded
\* with signatureSegmentStartIndex = messages.length.
retryStart(requestData) ==
    IF requestData.messagesIsArray THEN Len(requestData.messages) ELSE 0

RetryCall(sw, r) ==
    Call(sw.mcpModel, sw.mcpModel, sw.requestData, sw.requestData.messages,
         retryStart(sw.requestData), r, TRUE, sw.envMap)

\* bufferForMcpSwitchAndMaybeRetry after readStreamToString gave the text of
\* the chunks: without a signal the text is replayed, with one the retry is
\* called.  firstEvents keeps the events that the transcoder wrote.
Buffered(events, chunks, text, r) ==
    IF hasMcpSwitchSignal(parseEvents(text))
    THEN Exchanged([switch EXCEPT !.pc = "retry", !.buffered = TRUE, !.signal = TRUE,
                                  !.retried = TRUE, !.firstEvents = events,
                                  !.firstChunks = chunks,
                                  !.calls = Append(@, RetryCall(switch, r))],
                   r.ledger)
    ELSE Exchanged([switch EXCEPT !.pc = "returned", !.buffered = TRUE,
                                  !.result = "replayed", !.firstEvents = events,
                                  !.firstChunks = chunks,
                                  !.sessionMcpState = updatedSessions(switch),
                                  !.response = Converted(1, "replayed",
                                                         streamFromString(text))],
                   toolThoughtSignatures)

Buffer(events, chunks) ==
    Buffered(events, chunks, readStreamToString(chunks, << >>),
             transformClaudeRequestIn(toolThoughtSignatures,
                 Request(switch.requestData.messages, TRUE,
                         retryStart(switch.requestData), FALSE)))

\* handleMessages after transformClaudeResponseOut: with a substitute model,
\* bufferForMcpSwitchAndMaybeRetry and updateSessionAfterResponse; the
\* transcoded stream is returned unread when it is not buffered.
BufferForMcpSwitchAndMaybeRetry ==
    /\ switch.pc = "converted"
    /\ IF switch.mcpModel # NoName /\ switch.shouldBufferForSwitch
       THEN \E events \in FirstStreams : Buffer(events, chunksOf(events))
       ELSE Exchanged([switch EXCEPT !.pc = "returned", !.result = "passedThrough",
                          !.sessionMcpState = IF switch.mcpModel # NoName
                                              THEN updatedSessions(switch) ELSE @,
                          !.response = Converted(1, "transcoded", << >>)],
                      toolThoughtSignatures)

\* The session map after a retry that succeeded.
committedSessions(sw) ==
    IF hasSession(sw.requestData)
    THEN [sw.sessionMcpState EXCEPT ![sw.requestData.sessionId] =
             [@ EXCEPT !.lastFamily = "gemini",
                       !.mcpStartIndex = IF @ = -1 /\ sw.requestData.messagesIsArray
                                         THEN Len(sw.requestData.messages) ELSE @]]
    ELSE sw.sessionMcpState

\* A retry whose answer is returned after the chunks of the first attempt.
RetryAnsweredAfterFirst ==
    /\ switch.pc = "retry"
    /\ \E events \in RetryStreams :
         Exchanged([switch EXCEPT !.pc = "returned", !.result = "retried",
                       !.retryEvents = events,
                       !.sessionMcpState = committedSessions(switch),
                       !.response = Converted(2, "transcoded",
                                              switch.firstChunks \o chunksOf(events))],
                   toolThoughtSignatures)

\* A retry that commits the session to the substitute model whatever the
\* response.
RetryAnsweredCommittingOnError ==
    /\ switch.pc = "retry"
    /\ \/ \E events \in RetryStreams :
            Exchanged([switch EXCEPT !.pc = "returned", !.result = "retried",
                          !.retryEvents = events,
                          !.sessionMcpState = committedSessions(switch),
                          !.response = Converted(2, "transcoded", chunksOf(events))],
                      toolThoughtSignatures)
       \/ \E response \in ErrorResponses :
            Exchanged([switch EXCEPT !.pc = "returned", !.result = "retryError",
                          !.sessionMcpState = committedSessions(switch),
                          !.response = ApiResponse(response.status,
                                                   headersToObject(response.headers),
                                                   Body("raw", 2, << >>))],
                      toolThoughtSignatures)

\* The retry with the substitute model answers: its transcoded response is
\* returned unread (retryEvents keeps the events that the transcoder writes),
\* or its status, headers and body when it is not ok.
RetryAnswered ==
    /\ switch.pc = "retry"
    /\ \/ \E events \in RetryStreams :
            Exchanged([switch EXCEPT !.pc = "returned", !.result = "retried",
                          !.retryEvents = events,
                          !.sessionMcpState = committedSessions(switch),
                          !.response = Converted(2, "transcoded", chunksOf(events))],
                      toolThoughtSignatures)
       \/ \E response \in ErrorResponses :
            Exchanged([switch EXCEPT !.pc = "returned", !.result = "retryError",
                          !.response = ApiResponse(response.status,
                                                   headersToObject(response.headers),
                                                   Body("raw", 2, << >>))],
                      toolThoughtSignatures)

SwitchNext ==
    \/ HandleMessages
    \/ UpstreamAnswered
    \/ BufferForMcpSwitchAndMaybeRetry
    \/ RetryAnswered

SwitchSpec == SwitchInit /\ [][SwitchNext]_vars


(***************************************************************************)
(* A session (mode "session"): the requests of one client conversation,    *)
(* each with the history of the one before, the assistant's turn and the   *)
(* user's reply.  The substitute model is that of the process.             *)
(***************************************************************************)
MaxRequests == 3     \* requests of a session

\* The user's task, as string content.
TaskMessage == [role |-> "user", isString |-> TRUE, text |-> <<1>>, content |-> << >>]

AssistantMessage(items) ==
    [role |-> "assistant", isString |-> FALSE, text |-> EmptyText, content |-> items]

\* A tool_use_id that no tool_use of the conversation has.
UnknownToolId == 99

\* The assistant's turn at message index m (from 0) and the user's reply: an
\* answer, with or without a signed thinking item, and the next task; a call
\* of the native or of the bridged tool, or a signed call after a signed
\* thinking item, and its tool_result; a call that the user answers with a
\* task, with the tool_result of an unknown call, or with a tool_result
\* without tool_use_id.
Turns(m) ==
    { <<AssistantMessage(<<Item("text", <<ItemNumber(m, 1)>>, NoSig, NoTool, 0)>>),
        TaskMessage>>,
      <<AssistantMessage(<<Item("thinking", <<ItemNumber(m, 1)>>, ItemNumber(m, 1), NoTool, 0),
                           Item("text", <<ItemNumber(m, 2)>>, NoSig, NoTool, 0)>>),
        TaskMessage>>,
      <<AssistantMessage(<<Item("tool_use", <<9>>, NoSig, Tool(ItemNumber(m, 1), NativeName), 0)>>),
        TaskMessage>> }
    \cup { <<AssistantMessage(<<Item("tool_use", <<9>>, NoSig, Tool(ItemNumber(m, 1), name), 0)>>),
             [role |-> "user", isString |-> FALSE, text |-> EmptyText,
              content |-> <<Item("tool_result", <<8>>, NoSig,
                                 Tool(ItemNumber(m, 1), NoName), 0)>>]>> :
             name \in {NativeName, McpName} }
    \cup { <<AssistantMessage(<<Item("thinking", <<ItemNumber(m, 1)>>, ItemNumber(m, 1), NoTool, 0),
                               Item("tool_use", <<9>>, ItemNumber(m, 2),
                                    Tool(ItemNumber(m, 2), NativeName), 0)>>),
             [role |-> "user", isString |-> FALSE, text |-> EmptyText,
              content |-> <<Item("tool_result", <<8>>, NoSig,
                                 Tool(ItemNumber(m, 2), NoName), 0)>>]>> }
    \cup { <<AssistantMessage(<<Item("tool_use", <<9>>, NoSig, Tool(ItemNumber(m, 1), NativeName), 0)>>),
             [role |-> "user", isString |-> FALSE, text |-> EmptyText,
              content |-> <<Item("tool_result", <<8>>, NoSig, Tool(id, NoName), 0)>>]>> :
             id \in {UnknownToolId, 0} }

\* The ledger after earlier responses remembered a token for the tool ids of
\* the conversation.
SessionLedger ==
    [id \in { ItemNumber(m, i) : m \in 0..(2 * MaxRequests), i \in 1..2 } |-> LedgerToken(id)]

SessionTools == <<DeclaredTool(NativeName, TRUE), DeclaredTool(McpName, TRUE)>>

\* One system item, which lists the bridged tool.
SessionSystem == << <<"tools"  >> \o McpName >>

SessionModels == { ClaudeSonnet, GeminiFlash }

\* The requests that can follow the exchange sw: the conversation with one
\* more turn, or a new conversation of the same session.
NextRequests(sw) ==
    IF sw.pc = "idle"
    THEN { RequestData(stream, model, SessionSystem, SessionTools, <<TaskMessage>>, "s") :
             stream \in BOOLEAN, model \in SessionModels }
    ELSE { [sw.requestData EXCEPT !.stream = stream, !.messages = @ \o turn] :
             stream \in BOOLEAN, turn \in Turns(Len(sw.requestData.messages)) }
         \cup { [sw.requestData EXCEPT !.messages = <<TaskMessage>>] }

SessionInit ==
    /\ mode = "session"
    /\ state = NewStreamingState
    /\ inParts = << >>
    /\ nLines = 0
    /\ lastLine = "none"
    /\ toolThoughtSignatures = SessionLedger
    /\ nsResult = NoResult
    /\ reqIn = NoReq
    /\ reqOut = NoReq
    /\ parser = NoParser
    /\ \E mcpModel \in McpModels, envMap \in EnvMaps :
         switch = [NoSwitch EXCEPT !.sessionMcpState = NoSessions,
                                   !.mcpModel = mcpModel, !.envMap = envMap]

\* handleMessages on the next request of the conversation.
HandleSessionMessages ==
    /\ mode = "session" /\ switch.pc \in {"idle", "returned"}
    /\ switch.nRequests < MaxRequests
    /\ \E requestData \in NextRequests(switch) :
         Handle(requestData, switch.sessionMcpState, switch.mcpModel, switch.envMap,
                switch.nRequests)

SessionNext ==
    \/ HandleSessionMessages
    \/ UpstreamAnswered
    \/ BufferForMcpSwitchAndMaybeRetry
    \/ RetryAnswered

SessionSpec == SessionInit /\ [][SessionNext]_vars

(***************************************************************************)
(* Properties of the substitute-model retry                                *)
(***************************************************************************)
\* A request with a body is being handled or has been answered.
Exchanging == mode = "switch" /\ switch.pc # "idle" /\ switch.result # "rejected"

\* A tool_result item, with or without tool_use_id, after the last assistant
\* message.
ToolResultAfterLastAssistant(messages) ==
    \E i \in DOMAIN messages : \E j \in DOMAIN messages[i].content :
        /\ i > lastAssistantIndex(messages)
        /\ messages[i].content[j].type = "tool_result"

DeclaresBridgedTool(tools) == \E i \in DOMAIN tools : tools[i].name[1] = "mcp__"

ResolvedBaseModel == mapClaudeModelToGemini(switch.baseModel, switch.envMap)

\* C20: the transcoded stream is buffered and inspected only when a substitute
\* model is configured, the request is streamed, no tool-result appears after
\* the last assistant message, a declared tool has the prefix mcp__ and the
\* resolved base model is of the claude family; when the stream is not
\* buffered, no retry is issued.
C20_BufferedOnlyWhenEligible ==
    Exchanging =>
        /\ switch.buffered =>
             /\ switch.mcpModel # NoName
             /\ switch.requestData.stream
             /\ ~ToolResultAfterLastAssistant(switch.requestData.messages)
             /\ DeclaresBridgedTool(switch.requestData.tools)
             /\ startsWithClaude(ResolvedBaseModel)
        /\ switch.retried => switch.buffered

\* What the code keeps: the same with "no tool-result that carries a
\* tool_use_id" in place of "no tool-result".
BufferedOnlyWithoutIdentifiedResult ==
    Exchanging =>
        /\ switch.buffered =>
             /\ switch.mcpModel # NoName
             /\ switch.requestData.stream
             /\ ~hasAnyToolResultTurn(switch.requestData.messages)
             /\ DeclaresBridgedTool(switch.requestData.tools)
             /\ startsWithClaude(ResolvedBaseModel)
        /\ switch.retried => switch.buffered

\* The stream of a turn that ends with a tool_result without tool_use_id was
\* buffered and the retry was issued.
BufferedOnResultWithoutId ==
    /\ Exchanging /\ switch.retried
    /\ ToolResultAfterLastAssistant(switch.requestData.messages)


(***************************************************************************)
(* Properties of the session and of the calls of an exchange.              *)
(***************************************************************************)
InSession == mode = "session" /\ switch.pc # "idle"

HasHint(parts) ==
    \E i \in DOMAIN parts : \E j \in DOMAIN parts[i] : parts[i][j] = "hint"

\* Session maps that earlier requests could have left behind.
SomeSessions ==
    { NoSessions,
      [id \in {"s"} |-> [lastFamily |-> "gemini", mcpStartIndex |-> 1,
                         foldedSegments |-> <<Segment(1, 2, <<5>>)>>]] }

\* C21: when the substitute-model value is absent, handling a request leaves
\* the session map as it was (empty), does not buffer the transcoded stream,
\* makes one backend call only, sends the messages of the request unfolded,
\* sets no segment start index (-1), puts no switch hint into the system
\* instruction, and prepares the same call whatever the session map holds.
C21_AbsentModelDisablesSwitch ==
    (mode = "session" /\ switch.mcpModel = NoName) =>
        /\ switch.sessionMcpState = NoSessions
        /\ switch.pc # "idle" =>
             /\ ~switch.buffered /\ ~switch.retried /\ ~switch.shouldBufferForSwitch
             /\ Len(switch.calls) = 1
             /\ switch.calls[1].messages = switch.requestData.messages
             /\ switch.calls[1].signatureSegmentStartIndex = -1
             /\ switch.signatureSegmentStartIndex = -1
             /\ ~HasHint(switch.calls[1].systemParts)
             /\ \A sessions \in SomeSessions :
                  [contextOf(switch.requestData, sessions, NoName, switch.envMap)
                     EXCEPT !.sessionMcpState = NoSessions]
                  = contextOf(switch.requestData, NoSessions, NoName, switch.envMap)

\* A streamed second request of a session with the bridged tool declared and a
\* Claude model has been answered without a substitute model.
C21_Witness ==
    /\ InSession /\ switch.mcpModel = NoName
    /\ switch.pc = "returned" /\ switch.result = "passedThrough"
    /\ switch.nRequests = 2
    /\ switch.requestData.stream
    /\ hasMcpTools(switch.requestData.tools)
    /\ startsWithClaude(switch.requestData.model)
    /\ Len(switch.requestData.messages) = 3


\* The answer text of the events holds the switch marker, or an event starts a
\* tool_use block whose name starts with mcp__.
SignalIn(events) ==
    \/ \E i \in DOMAIN events :
         events[i].type = "content_block_start" /\ isMcpToolName(events[i].name)
    \/ Occurrences(textOut(events), MCP_SWITCH_SIGNAL, 1) # {}

\* C22: when the buffered first-attempt stream holds neither the switch marker
\* in its answer text nor the start of a tool_use block whose name starts with
\* mcp__, the bytes of the body returned to the client are the bytes of the
\* transcoded stream in order, and one backend call only has been made.
C22_ReplayIsByteEqual ==
    (Exchanging /\ switch.buffered /\ ~SignalIn(switch.firstEvents)) =>
        /\ switch.firstChunks = chunksOf(switch.firstEvents)
        /\ switch.pc = "returned" /\ switch.result = "replayed"
        /\ concatenation(switch.response.body.chunks) = concatenation(switch.firstChunks)
        /\ switch.response.body.attempt = 1
        /\ Len(switch.calls) = 1

\* A stream with the second half of the marker, a two-byte character and no
\* bridged tool call has been buffered and replayed.
C22_Witness ==
    /\ Exchanging /\ switch.buffered /\ switch.result = "replayed"
    /\ switch.firstChunks = chunksOf(<<TextDelta(<<84>>), TextDelta(<<233>>)>>)
    /\ Len(switch.response.body.chunks) = 1

\* The marker's halves in the wrong order and a call of the native tool are
\* replayed as well.
C22_WitnessNativeTool ==
    /\ Exchanging /\ switch.buffered /\ switch.result = "replayed"
    /\ switch.firstChunks = chunksOf(<<ToolUseStart(NativeName), TextDelta(<<83>>)>>)


\* C23: when the switch signal was found in the buffered first attempt and the
\* retry succeeded, the response returned to the client is the transcoded
\* response of the retry (attempt 2) with status 200, and its body holds the
\* chunks of the retry's events and no chunk of the first attempt.
C23_RetryResponseOnly ==
    (Exchanging /\ switch.signal /\ switch.pc = "returned"
     /\ switch.result # "retryError") =>
        /\ switch.result = "retried"
        /\ switch.response.status = 200
        /\ switch.response.body = Body("transcoded", 2, chunksOf(switch.retryEvents))
        /\ Len(switch.calls) = 2

\* A first attempt of two events that spell the marker was discarded and the
\* retry's response returned.
C23_Witness ==
    /\ Exchanging /\ switch.signal /\ switch.result = "retried"
    /\ switch.firstEvents = <<TextDelta(<<83>>), TextDelta(<<84>>)>>
    /\ switch.response.body.attempt = 2


\* C24: the retry request sent to the substitute model is transcoded with the
\* number of messages of the request as start index, so no part of any of its
\* messages carries a continuation token or thought=true, whatever tokens the
\* history and the ledger hold.
C24_RetryCarriesNoToken ==
    (InSession /\ switch.retried) =>
        /\ Len(switch.calls) = 2
        /\ switch.calls[2].model = switch.mcpModel
        /\ switch.calls[2].signatureSegmentStartIndex = Len(switch.requestData.messages)
        /\ Len(switch.calls[2].perMessage) = Len(switch.requestData.messages)
        /\ \A m \in DOMAIN switch.calls[2].perMessage :
             NoTokenNoThought(switch.calls[2].perMessage[m])

\* The retry of a request with five messages: the assistant message at index 1
\* holds a signed thinking item and a signed tool_use, and the first call
\* forwarded a token and a thought part for it.
C24_Witness ==
    /\ InSession /\ switch.retried
    /\ Len(switch.requestData.messages) = 5
    /\ \E i \in DOMAIN switch.requestData.messages[2].content :
         /\ switch.requestData.messages[2].content[i].type = "tool_use"
         /\ switch.requestData.messages[2].content[i].sig # NoSig
    /\ \E j \in DOMAIN switch.calls[1].perMessage[2] :
         switch.calls[1].perMessage[2][j].thoughtSignature # NoSig
    /\ \E j \in DOMAIN switch.calls[1].perMessage[2] : switch.calls[1].perMessage[2][j].thought
    /\ switch.calls[2].perMessage[2] # << >>

\* The retry of a request whose history holds a tool_use without a token of
\* its own, for which the ledger holds one.
C24_WitnessLedger ==
    /\ InSession /\ switch.retried
    /\ Len(switch.requestData.messages) = 5
    /\ switch.requestData.messages[2].content[1].type = "tool_use"
    /\ switch.requestData.messages[2].content[1].sig = NoSig
    /\ switch.requestData.messages[2].content[1].tool.id \in DOMAIN SessionLedger


\* The session state of the conversation.
SessionState == switch.sessionMcpState["s"]

\* A tool_result after the last assistant message answers a tool_use of an
\* assistant message with index (from 0) of k or more.
AnswersCallFrom(messages, k) ==
    \E i \in DOMAIN messages : \E j \in DOMAIN messages[i].content :
        /\ \A a \in i..Len(messages) : messages[a].role # "assistant"
        /\ messages[i].content[j].type = "tool_result"
        /\ messages[i].content[j].tool.id # 0
        /\ \E a \in DOMAIN messages : \E b \in DOMAIN messages[a].content :
             /\ a - 1 >= k
             /\ messages[a].role = "assistant"
             /\ messages[a].content[b].type = "tool_use"
             /\ messages[a].content[b].tool.id = messages[i].content[j].tool.id

\* The next request of a session is handled, or its retry answers.
C25_Step ==
    /\ (/\ mode = "session" /\ switch.pc = "retry"
        /\ switch'.pc = "returned" /\ switch'.result = "retried") =>
           switch'.sessionMcpState["s"].mcpStartIndex = Len(switch.requestData.messages)
    /\ (/\ mode = "session" /\ switch.pc = "returned" /\ switch'.pc = "upstream"
        /\ switch.mcpModel # NoName
        /\ SessionState.mcpStartIndex # -1
        /\ AnswersCallFrom(switch'.requestData.messages, SessionState.mcpStartIndex)) =>
           /\ switch'.calls[1].model = switch.mcpModel
           /\ switch'.modelForQuota = switch.mcpModel
           /\ switch'.calls[1].messages = switch'.requestData.messages
           /\ switch'.sessionMcpState = switch.sessionMcpState

\* C25: a retry that succeeded leaves the number of messages of its request as
\* the segment-start index of the session; while the session holds a
\* segment-start index k, a request whose tool_result after the last assistant
\* message answers a tool_use of an assistant message with index >= k is sent
\* to the substitute model, whatever the name of the tool, with its history
\* unfolded, and the segment stays open.
C25_StickyRouting == [][C25_Step]_vars

\* The third request of a session that committed at index 1 answers a call of
\* the native tool made at message index 3 and was sent to the substitute
\* model.
C25_Witness ==
    /\ InSession /\ switch.mcpModel # NoName
    /\ switch.nRequests = 3 /\ switch.pc = "returned"
    /\ SessionState.mcpStartIndex = 1
    /\ AnswersCallFrom(switch.requestData.messages, 1)
    /\ Len(switch.requestData.messages) = 5
    /\ switch.requestData.messages[4].content[1].type = "tool_use"
    /\ ~isMcpToolName(switch.requestData.messages[4].content[1].tool.name)
    /\ startsWithClaude(switch.requestData.model)
    /\ switch.calls[1].model = switch.mcpModel


\* The trimmed text of the last assistant message with text among the
\* messages with index (from 0) k..end-1, << >> when there is none.
LastAnswerText(messages, k, end) ==
    LET answers == { i \in (k + 1)..end :
                       /\ messages[i].role = "assistant"
                       /\ trimmed(extractTextFromClaudeContent(messages[i])) # << >> }
    IN  IF answers = {} THEN << >>
        ELSE trimmed(extractTextFromClaudeContent(
                 messages[CHOOSE i \in answers : \A h \in answers : h <= i]))

\* The next request of a session with an open segment from k, with the
\* conversation continued beyond k, goes to the primary family.
FoldBackStep ==
    /\ mode = "session" /\ switch.pc = "returned" /\ switch'.pc = "upstream"
    /\ switch.mcpModel # NoName
    /\ SessionState.mcpStartIndex # -1
    /\ Len(switch'.requestData.messages) - 1 > SessionState.mcpStartIndex
    /\ startsWithClaude(switch'.modelForQuota)

\* The messages sent with the segment k..end-1 replaced by summary, after the
\* earlier segments of the session are folded.
FoldedAt(messages, prior, k, summary) ==
    foldSegments(SubSeq(messages, 1, k), prior)
    \o summary
    \o SubSeq(messages, Len(messages), Len(messages))

\* The fold-back step sends the messages folded with summary in place of the
\* open segment, no part of the message in that place carries a token, and the
\* segment is closed.
FoldsBackWith(summary) ==
    /\ switch'.calls[1].messages
         = FoldedAt(switch'.requestData.messages, SessionState.foldedSegments,
                    SessionState.mcpStartIndex, summary)
    /\ Len(switch'.calls[1].perMessage) = Len(switch'.calls[1].messages)
    /\ NoTokenNoThought(
           switch'.calls[1].perMessage[
               Len(foldSegments(SubSeq(switch'.requestData.messages, 1,
                                       SessionState.mcpStartIndex),
                                SessionState.foldedSegments)) + 1])
    /\ switch'.calls[1].signatureSegmentStartIndex = -1
    /\ switch'.sessionMcpState["s"].mcpStartIndex = -1

SegmentAnswer ==
    LastAnswerText(switch'.requestData.messages, SessionState.mcpStartIndex,
                   Len(switch'.requestData.messages) - 1)

C26_Step == FoldBackStep => FoldsBackWith(<<SummaryMessage(SegmentAnswer)>>)

\* C26: when the next request of a session with an open segment goes to the
\* primary family, the messages of the backend request are those of the
\* request with the messages from the segment start up to the last message
\* replaced by exactly one user message, whose text is "MCP result:" and the
\* last answer text of the segment, and no part made of it carries a token.
C26_FoldBackOneSummary == [][C26_Step]_vars

\* What the code keeps: the summary message stands in place of the segment
\* when the segment holds an answer text, and nothing does when it holds none.
FoldBackSummaryOfAnswer ==
    [][FoldBackStep =>
         FoldsBackWith(IF SegmentAnswer = << >> THEN << >>
                       ELSE <<SummaryMessage(SegmentAnswer)>>)]_vars

\* A segment of one assistant message that calls a tool and holds no text was
\* folded: the backend request holds the two user messages only.
FoldedWithoutSummary ==
    /\ InSession /\ switch.mcpModel # NoName /\ switch.nRequests = 2
    /\ SessionState.foldedSegments = <<Segment(1, 2, << >>)>>
    /\ Len(switch.requestData.messages) = 3
    /\ switch.calls[1].messages = <<TaskMessage, TaskMessage>>

\* A segment with an answer text was folded at the third request, after an
\* earlier segment: one summary message for each.
FoldedWithSummary ==
    /\ InSession /\ switch.mcpModel # NoName /\ switch.nRequests = 3
    /\ Len(SessionState.foldedSegments) = 2
    /\ SessionState.foldedSegments[2].summaryText # << >>
    /\ Len(switch.requestData.messages) = 5
    /\ Len(switch.calls[1].messages) = 5


\* C27: an exchange makes one backend call or two; the second is made exactly
\* when the first attempt was buffered and holds the switch signal, and it
\* goes to the substitute model; the retry's response is returned as it is,
\* also when its stream holds the signal; a response that is not ok, of the
\* first call or of the retry, is returned and no further call follows it.
C27_AtMostTwoCalls ==
    Exchanging =>
        /\ Len(switch.calls) \in {1, 2}
        /\ Len(switch.calls) = 2 <=> (switch.buffered /\ SignalIn(switch.firstEvents))
        /\ Len(switch.calls) = 2 => switch.calls[2].model = switch.mcpModel
        /\ switch.result = "upstreamError" =>
             Len(switch.calls) = 1 /\ ~switch.buffered /\ switch.pc = "returned"
        /\ switch.result = "retryError" => Len(switch.calls) = 2 /\ switch.pc = "returned"
        /\ switch.result = "retried" =>
             /\ Len(switch.calls) = 2 /\ switch.pc = "returned"
             /\ switch.response.body = Body("transcoded", 2, chunksOf(switch.retryEvents))
        /\ switch.pc = "returned" => ~ENABLED SwitchNext

\* The retry's stream holds the switch marker and was returned after two calls.
C27_Witness ==
    /\ Exchanging /\ switch.result = "retried"
    /\ SignalIn(switch.retryEvents)
    /\ Len(switch.calls) = 2

\* The retry was answered with a response that is not ok, which was returned.
C27_WitnessRetryError ==
    /\ Exchanging /\ switch.result = "retryError"
    /\ switch.response.status = 429
    /\ Len(switch.calls) = 2


(***************************************************************************)
(* Properties of lines that do not parse, of responses that are not ok and *)
(* of incomplete requests.                                                 *)
(***************************************************************************)
\* processSSELine was called with a line whose payload does not parse.
BadLineStep ==
    /\ mode \in {"stream", "search"}
    /\ nLines' = nLines + 1
    /\ lastLine' = "bad"

C28_Step ==
    BadLineStep =>
        /\ state' = state
        /\ toolThoughtSignatures' = toolThoughtSignatures
        /\ \A line \in Chunks(mode, Len(inParts) + 1) \cup {DoneLine} :
             processSSELine(WithLedger(state', toolThoughtSignatures'), line, FALSE)
               = processSSELine(WithLedger(state, toolThoughtSignatures), line, FALSE)

\* C28: a line of the backend stream whose JSON payload does not parse adds no
\* outbound event and leaves the transcoder state (open block, block index,
\* pending token, flags) and the ledger as they were; every line after it is
\* processed as it would have been without it.
C28_BadChunkIsNoOp == [][C28_Step]_vars

\* A bad line arrived while a block was open and events had been sent, and the
\* message is not stopped.
C28_Witness ==
    /\ mode = "stream" /\ lastLine = "bad"
    /\ state.blockType # BLOCK_NONE
    /\ state.controller # << >>
    /\ ~state.messageStopSent
    /\ nLines >= 2

\* A bad line arrived while a token was pending.
C28_WitnessPending ==
    /\ mode = "stream" /\ lastLine = "bad"
    /\ state.pending # NoSig


\* The exchange returned a backend response that is not ok.
ReturnedError ==
    Exchanging /\ switch.pc = "returned" /\ switch.result \in {"upstreamError", "retryError"}

\* The body is the body of the call that was answered, not transcoded.
RelaysBody == switch.response.body = Body("raw", Len(switch.calls), << >>)

\* C29 as stated: the response returned for a backend response that is not ok
\* has the backend's status, the backend's headers unchanged, and the
\* backend's body, not transcoded.
C29_ErrorPassedThroughUnchanged ==
    ReturnedError =>
        \E response \in ErrorResponses :
            /\ switch.response.status = response.status
            /\ switch.response.headers = response.headers
            /\ RelaysBody

\* C29, amended: the response has the backend's status, the backend's headers
\* other than content-encoding and content-length, each with its value, and
\* the backend's body, not transcoded.
C29_ErrorPassedThrough ==
    ReturnedError =>
        \E response \in ErrorResponses :
            /\ switch.response.status = response.status
            /\ DOMAIN switch.response.headers
                 = DOMAIN response.headers \ {"content-encoding", "content-length"}
            /\ \A k \in DOMAIN switch.response.headers :
                 switch.response.headers[k] = response.headers[k]
            /\ RelaysBody

\* A 429 with content-encoding, content-length and retry-after was returned
\* with retry-after and without content-encoding.
C29_Witness ==
    /\ ReturnedError /\ switch.result = "upstreamError"
    /\ switch.response.status = 429
    /\ "retry-after" \in DOMAIN switch.response.headers
    /\ "content-encoding" \notin DOMAIN switch.response.headers


\* The request lacks a model or its messages.
Incomplete(requestData) == requestData.model = NoName \/ ~requestData.messagesIsArray

\* C30: a request without a model or without messages is answered with a
\* client error (status 4xx) and no backend call is made for it.
C30_IncompleteRequestRejected ==
    (Exchanging /\ Incomplete(switch.requestData)) =>
        /\ switch.calls = << >>
        /\ switch.pc = "returned" /\ switch.response.status \in 400..499

\* What the code keeps: a request without a body is answered with status 400
\* and no backend call, and every other request is passed to the backend.
EmptyBodyRejected ==
    (mode = "switch" /\ switch.pc # "idle") =>
        IF switch.result = "rejected"
        THEN switch.pc = "returned" /\ switch.response.status = 400
             /\ switch.response.body.kind = "error"
        ELSE Len(switch.calls) >= 1

\* A request without a model was passed to the backend, whose answer was
\* transcoded and returned with status 200.
IncompleteRequestCalled ==
    /\ Exchanging /\ switch.requestData.model = NoName
    /\ Len(switch.requestData.messages) = 1
    /\ Len(switch.calls) = 1
    /\ switch.pc = "returned" /\ switch.response.status = 200

\* A request without messages was passed to the backend.
RequestWithoutMessagesCalled ==
    /\ Exchanging /\ ~switch.requestData.messagesIsArray
    /\ Len(switch.calls) = 1 /\ switch.calls[1].contents = << >>


(***************************************************************************)
(* Properties of the end of the outbound stream                            *)
(***************************************************************************)
\* C38: once message_stop has been emitted, it stays the last event of the
\* outbound stream, whatever lines the backend sends afterwards.
C38_NothingAfterMessageStop ==
    mode \in {"stream", "search"} =>
        \A m \in Positions("message_stop") : m = Len(Events)

\* What the code keeps: no second message_stop follows the first.
NoMessageStopAfterMessageStop ==
    mode \in {"stream", "search"} =>
        \A m \in Positions("message_stop") :
            \A i \in (m + 1)..Len(Events) : Events[i].type # "message_stop"

\* A chunk with a text part arrived after the finish chunk: a content block
\* follows message_stop.
BlockAfterMessageStop ==
    /\ mode = "stream"
    /\ \E m \in Positions("message_stop") :
         \E i \in (m + 1)..Len(Events) : Events[i].type = "content_block_start"

\* A second finish chunk arrived: a second message_delta follows message_stop.
MessageDeltaAfterMessageStop ==
    /\ mode = "stream"
    /\ \E m \in Positions("message_stop") :
         \E i \in (m + 1)..Len(Events) : Events[i].type = "message_delta"


(***************************************************************************)
(* Streaming against the non-streaming accumulator                         *)
(***************************************************************************)
\* The stream has just received its first finish chunk.
FirstFinish ==
    /\ mode = "stream" /\ lastLine = "finish"
    /\ Cardinality(Positions("message_delta")) = 1

\* The stop reason of the stream: the one of its message_delta.
StreamStopReason == Events[CHOOSE i \in Positions("message_delta") : TRUE].kind

\* The response of the non-streaming accumulator for the parts of the stream.
Accumulated(finishReason) == nsProcess(EmptyLedger, inParts, finishReason)

\* What the two modes are compared on: a generated tool id is random, so the
\* id of a block is compared only when the backend gave one.
Mirrored(blocks, parts) ==
    [i \in DOMAIN blocks |->
        [blocks[i] EXCEPT !.tool.id =
            IF \E j \in DOMAIN parts : parts[j].kind = "fc" /\ parts[j].id = @ THEN @ ELSE 0]]

\* A reasoning part without text.
EmptyThought(part) == part.kind = "text" /\ part.thought /\ part.text = EmptyText

\* C32: when a stream outside built-in search has finished, the blocks
\* assembled from its events (type, text, token, tool name, input) are the
\* content that the non-streaming accumulator makes of the same parts, and the
\* stop reason of its message_delta is the accumulator's for the same finish
\* reason.
C32_StreamingMirrorsNonStreaming ==
    FirstFinish =>
        /\ Mirrored(BlocksOf(Events), inParts) = Mirrored(Accumulated("STOP").content, inParts)
        /\ IF StreamStopReason = "max_tokens"
           THEN Accumulated("MAX_TOKENS").stop_reason = "max_tokens"
           ELSE Accumulated("STOP").stop_reason = StreamStopReason


\* The stop reasons of the two modes do agree.
StopReasonMirrored ==
    FirstFinish =>
        IF StreamStopReason = "max_tokens"
        THEN Accumulated("MAX_TOKENS").stop_reason = "max_tokens"
        ELSE Accumulated("STOP").stop_reason = StreamStopReason

\* The two inputs on which the blocks differ: a reasoning part without text and
\* without token, and a signed text part before the first reasoning part.
EmptyThoughtStreamed ==
    /\ FirstFinish
    /\ \E i \in DOMAIN inParts : EmptyThought(inParts[i]) /\ inParts[i].sig = NoSig
    /\ Len(BlocksOf(Events)) > Len(Accumulated("STOP").content)

SignedTextBeforeThoughtStreamed ==
    /\ FirstFinish
    /\ Len(inParts) = 2
    /\ inParts[1].kind = "text" /\ ~inParts[1].thought /\ inParts[1].sig # NoSig
    /\ inParts[1].text # EmptyText
    /\ inParts[2].kind = "text" /\ inParts[2].thought /\ inParts[2].text # EmptyText
    /\ Len(BlocksOf(Events)) < Len(Accumulated("STOP").content)


(***************************************************************************)
(* Switch detection on the buffered stream.                                *)
(***************************************************************************)
\* The texts of the text deltas of the events, in order.
TextDeltaTexts(events) ==
    concatenation([i \in DOMAIN events |->
        IF events[i].type = "content_block_delta" /\ events[i].delta = "text_delta"
        THEN events[i].text ELSE << >>])

\* The text holds the switch marker.
HoldsMarker(text) ==
    \E i \in 1..(Len(text) - Len(MCP_SWITCH_SIGNAL) + 1) :
        SubSeq(text, i, i + Len(MCP_SWITCH_SIGNAL) - 1) = MCP_SWITCH_SIGNAL

\* Some event opens a tool_use block of a tool whose name starts with mcp__.
OpensBridgedToolUse(events) ==
    \E i \in DOMAIN events :
        events[i].type = "content_block_start" /\ events[i].name # NoName
        /\ events[i].name[1] = "mcp__"

\* C35: the switch is detected on a buffered stream exactly when the texts of
\* its text deltas, concatenated, hold the switch marker, or one of its events
\* opens a tool_use block whose name starts with mcp__; the marker in a
\* reasoning delta, in a tool input or in data that is not JSON does not count.
C35_SwitchDetectionExact ==
    (Exchanging /\ switch.buffered) =>
        (switch.signal <=>
            \/ HoldsMarker(TextDeltaTexts(switch.firstEvents))
            \/ OpensBridgedToolUse(switch.firstEvents))

\* The marker split over two text deltas is detected.
C35_Witness ==
    /\ Exchanging /\ switch.buffered /\ switch.signal
    /\ switch.firstEvents = <<TextDelta(<<83>>), TextDelta(<<84>>)>>

\* The marker in a reasoning delta, in a tool input and in data that is not
\* JSON is not detected.
C35_WitnessReasoning ==
    /\ Exchanging /\ switch.buffered /\ ~switch.signal
    /\ switch.firstEvents = <<ThinkingDelta(MCP_SWITCH_SIGNAL), InputJsonDelta(MCP_SWITCH_SIGNAL)>>

C35_WitnessNotJson ==
    /\ Exchanging /\ switch.buffered /\ ~switch.signal
    /\ switch.firstEvents = <<NotJson(MCP_SWITCH_SIGNAL), TextDelta(<<83>>)>>

\* A tool_use block of the bridged tool is detected without the marker.
C35_WitnessToolUse ==
    /\ Exchanging /\ switch.buffered /\ switch.signal
    /\ switch.firstEvents = <<ToolUseStart(McpName)>>


(***************************************************************************)
(* Attribution of a tool-result turn.                                      *)
(***************************************************************************)
\* The tool_result items after the last assistant message, as pairs
\* <<message, item>>: all of them, or those that carry a tool_use_id.
ResultsAfterLastAssistant(messages, identifiedOnly) ==
    { p \in (DOMAIN messages) \X (1..MaxItems) :
        /\ \A a \in p[1]..Len(messages) : messages[a].role # "assistant"
        /\ p[2] \in DOMAIN messages[p[1]].content
        /\ messages[p[1]].content[p[2]].type = "tool_result"
        /\ identifiedOnly => messages[p[1]].content[p[2]].tool.id # 0 }

\* The tool_use items of assistant messages that these results refer to.
ReferencedInvocations(messages, results) ==
    { q \in (DOMAIN messages) \X (1..MaxItems) :
        /\ messages[q[1]].role = "assistant"
        /\ q[2] \in DOMAIN messages[q[1]].content
        /\ messages[q[1]].content[q[2]].type = "tool_use"
        /\ messages[q[1]].content[q[2]].tool.id # 0
        /\ \E p \in results :
             messages[p[1]].content[p[2]].tool.id = messages[q[1]].content[q[2]].tool.id }

\* An invocation of a bridged tool, or one in the open segment (index from 0).
Qualifies(messages, q, k) ==
    \/ messages[q[1]].content[q[2]].tool.name # NoName
       /\ messages[q[1]].content[q[2]].tool.name[1] = "mcp__"
    \/ k # -1 /\ q[1] - 1 >= k

\* The turn belongs to the substitute model.
AttributedToSubstitute(messages, results, k) ==
    /\ results # {}
    /\ \/ \E q \in ReferencedInvocations(messages, results) : Qualifies(messages, q, k)
       \/ ReferencedInvocations(messages, results) = {} /\ k # -1

\* The segment-start index of the session before the request.
SegmentStartBefore ==
    IF "s" \in DOMAIN switch.sessionMcpState THEN SessionState.mcpStartIndex ELSE -1

\* A request of the session is prepared and routed.
AttributionStep(identifiedOnly) ==
    (/\ mode = "session" /\ switch.pc \in {"idle", "returned"} /\ switch'.pc = "upstream"
     /\ switch.mcpModel # NoName) =>
        IF AttributedToSubstitute(switch'.requestData.messages,
               ResultsAfterLastAssistant(switch'.requestData.messages, identifiedOnly),
               SegmentStartBefore)
        THEN /\ switch'.upstreamModel = switch.mcpModel
             /\ switch'.modelForQuota = switch.mcpModel
        ELSE /\ switch'.upstreamModel = switch'.baseModel
             /\ switch'.modelForQuota =
                    inferFinalModelForQuota(switch'.requestData.tools, switch'.baseModel,
                                            switch.envMap)

\* C34: a turn is attributed by the tool_results after its last assistant
\* message: it goes to the substitute model when an invocation they refer to
\* is of a tool named mcp__... or lies at or after the segment-start index, to
\* the primary model when invocations are found and none qualifies, and, when
\* none is found, to the substitute model exactly when a segment is open.
C34_ToolResultAttribution == [][AttributionStep(FALSE)]_vars

\* What the code keeps: the same over the tool_results that carry a
\* tool_use_id.
IdentifiedToolResultAttribution == [][AttributionStep(TRUE)]_vars

\* A turn whose only tool_result has no tool_use_id, sent while a segment is
\* open, went to the primary model and closed the segment.
UnidentifiedResultLeftSegment ==
    /\ InSession /\ switch.mcpModel # NoName /\ switch.pc = "upstream"
    /\ ResultsAfterLastAssistant(switch.requestData.messages, TRUE) = {}
    /\ ResultsAfterLastAssistant(switch.requestData.messages, FALSE) # {}
    /\ switch.upstreamModel # switch.mcpModel
    /\ SessionState.foldedSegments # << >>
    /\ SessionState.foldedSegments[Len(SessionState.foldedSegments)].end
           = Len(switch.requestData.messages) - 1

\* The result of an unknown call, sent while a segment is open, went to the
\* substitute model.
UnknownResultKeptSegment ==
    /\ InSession /\ switch.mcpModel # NoName /\ switch.pc = "upstream"
    /\ \E p \in ResultsAfterLastAssistant(switch.requestData.messages, TRUE) :
         switch.requestData.messages[p[1]].content[p[2]].tool.id = UnknownToolId
    /\ switch.upstreamModel = switch.mcpModel
    /\ SessionState.mcpStartIndex # -1


(***************************************************************************)
(* Folded ranges.                                                          *)
(***************************************************************************)
\* Message index i (from 0) lies in a recorded range.
InFoldedRange(segments, i) ==
    \E n \in DOMAIN segments : segments[n].start <= i /\ i < segments[n].end

\* The messages from index i (from 0) on that lie in no recorded range.
RECURSIVE OutsideFoldedRanges(_, _, _)
OutsideFoldedRanges(messages, segments, i) ==
    IF i >= Len(messages) THEN << >>
    ELSE (IF InFoldedRange(segments, i) THEN << >> ELSE <<messages[i + 1]>>)
         \o OutsideFoldedRanges(messages, segments, i + 1)

IsSummaryMessage(message) ==
    /\ message.role = "user" /\ ~message.isString /\ Len(message.content) = 1
    /\ message.content[1].type = "text"
    /\ SubSeq(message.content[1].text, 1, Len(McpResultPrefix)) = McpResultPrefix

\* The request in hand was sent to the primary family while the session
\* holds folded ranges.
PrimaryRequestAfterFold ==
    /\ InSession /\ switch.mcpModel # NoName
    /\ familyOf(switch.calls[1].model) = "claude"
    /\ SessionState.foldedSegments # << >>

\* The history that was transcoded holds, besides summaries, the messages
\* outside the recorded ranges and no other.
FoldedRangesLeftOut ==
    PrimaryRequestAfterFold =>
        SelectSeq(switch.calls[1].messages, LAMBDA m : ~IsSummaryMessage(m))
            = OutsideFoldedRanges(switch.requestData.messages, SessionState.foldedSegments, 0)

\* The recorded ranges of the session stay as they are; ranges are appended.
RangesKept ==
    (mode = "session" /\ "s" \in DOMAIN switch.sessionMcpState) =>
        /\ "s" \in DOMAIN switch'.sessionMcpState
        /\ Len(switch'.sessionMcpState["s"].foldedSegments) >= Len(SessionState.foldedSegments)
        /\ SubSeq(switch'.sessionMcpState["s"].foldedSegments, 1,
                  Len(SessionState.foldedSegments)) = SessionState.foldedSegments

C33_Step == RangesKept /\ FoldedRangesLeftOut'

\* C33: once a range is recorded for a session, it is never removed or
\* changed, and the history from which a later request to the primary family
\* is transcoded holds no message whose index lies in a recorded range.
C33_FoldedRangesStayFolded == [][C33_Step]_vars

\* The third request of a session goes to the primary family after the second
\* folded the range [1, 2), and its history leaves that message out.
C33_Witness ==
    /\ PrimaryRequestAfterFold
    /\ switch.nRequests = 3
    /\ Len(SessionState.foldedSegments) = 1
    /\ SessionState.foldedSegments[1].end < Len(switch.requestData.messages) - 1
    /\ Len(switch.calls[1].messages) < Len(switch.requestData.messages)


(***************************************************************************)
(* The end of a substitute segment.                                        *)
(***************************************************************************)
\* A request of the session unsets the segment-start index.
SegmentStartUnset ==
    /\ mode = "session" /\ "s" \in DOMAIN switch.sessionMcpState
    /\ SessionState.mcpStartIndex # -1
    /\ switch'.sessionMcpState["s"].mcpStartIndex = -1

\* The request records one more range, from the segment-start index to its
\* last message, and goes to the primary family.
SegmentFoldedBack ==
    /\ Len(switch'.sessionMcpState["s"].foldedSegments) = Len(SessionState.foldedSegments) + 1
    /\ SubSeq(switch'.sessionMcpState["s"].foldedSegments, 1,
              Len(SessionState.foldedSegments)) = SessionState.foldedSegments
    /\ switch'.sessionMcpState["s"].foldedSegments[Len(SessionState.foldedSegments) + 1].start
           = SessionState.mcpStartIndex
    /\ switch'.sessionMcpState["s"].foldedSegments[Len(SessionState.foldedSegments) + 1].end
           = Len(switch'.requestData.messages) - 1
    /\ switch'.pc = "upstream"
    /\ familyOf(switch'.calls[1].model) = "claude"

C37_Step == SegmentStartUnset => SegmentFoldedBack

\* C37: a request that changes the segment-start index of its session from k
\* to unset appends to the folded segments of the session a range that starts
\* at k and covers the segment, and is sent to a model of the primary family.
C37_UnsetOnlyByFoldBack == [][C37_Step]_vars

\* What the code keeps: the same for a request with more than k + 1 messages,
\* and the request that unsets the index goes to the primary family.
UnsetByFoldBackOfLongerHistory ==
    [][(SegmentStartUnset /\ Len(switch'.requestData.messages) - 1 > SessionState.mcpStartIndex)
          => SegmentFoldedBack]_vars

UnsetOnlyByPrimaryRequest ==
    [][SegmentStartUnset => switch'.pc = "upstream" /\ familyOf(switch'.calls[1].model) = "claude"]_vars

\* A new conversation of the session, sent to the primary family while a
\* segment is open, has unset the index and recorded no range.
SegmentDroppedByShortHistory ==
    /\ InSession /\ switch.mcpModel # NoName /\ switch.pc = "upstream"
    /\ switch.nRequests = 2
    /\ Len(switch.requestData.messages) = 1
    /\ SessionState.lastFamily = "gemini"
    /\ SessionState.mcpStartIndex = -1
    /\ SessionState.foldedSegments = << >>


(***************************************************************************)
(* Backend failures and the session.                                       *)
(***************************************************************************)
\* The state of the session in the map, the lazily created one when the map
\* has no entry.
SessionIn(sessionMcpState) ==
    IF "s" \in DOMAIN sessionMcpState THEN sessionMcpState["s"] ELSE NewSessionState

\* The step returns the response of a backend call that is not ok.
FailureReturned ==
    /\ switch'.pc = "returned" /\ switch'.result \in {"upstreamError", "retryError"}
    /\ switch.pc # "returned"

\* The step sets the segment-start index of the session.
SegmentStartSet ==
    /\ SessionIn(switch'.sessionMcpState).mcpStartIndex # -1
    /\ SessionIn(switch'.sessionMcpState).mcpStartIndex
           # SessionIn(switch.sessionMcpState).mcpStartIndex

C40_Step ==
    mode = "session" =>
        /\ FailureReturned =>
             /\ switch'.sessionMcpState = switch.sessionMcpState
             /\ switch'.response.status \in { r.status : r \in ErrorResponses }
             /\ switch'.response.body = Body("raw", Len(switch.calls), << >>)
        /\ (\/ SegmentStartSet
            \/ SessionIn(switch'.sessionMcpState).lastFamily
                   # SessionIn(switch.sessionMcpState).lastFamily) =>
             /\ switch'.pc = "returned" /\ switch.pc # "returned"
             /\ switch'.response.status = 200
        /\ SegmentStartSet =>
             /\ SessionIn(switch.sessionMcpState).mcpStartIndex = -1
             /\ switch'.calls[Len(switch'.calls)].model = switch.mcpModel

\* C40: the step that returns the response of a failed backend call, the
\* original one or the retry, returns its status and its body and leaves the
\* session as it is; lastFamily changes and the segment-start index is set
\* only by a step that returns a success, and the index is set only when it was
\* unset and the answered call went to the substitute model.
C40_FailureOpensNoSegment == [][C40_Step]_vars

\* The retry of the first request of a session failed: the session has no
\* segment-start index and no lastFamily.
C40_Witness ==
    /\ InSession /\ switch.pc = "returned" /\ switch.result = "retryError"
    /\ switch.nRequests = 1
    /\ SessionState.mcpStartIndex = -1 /\ SessionState.lastFamily = "null"

\* The original call of a request that folded the open segment back failed:
\* the index stays unset and lastFamily stays that of the substitute family.
C40_WitnessOriginal ==
    /\ InSession /\ switch.mcpModel # NoName
    /\ switch.pc = "returned" /\ switch.result = "upstreamError"
    /\ SessionState.mcpStartIndex = -1 /\ SessionState.lastFamily = "gemini"
    /\ SessionState.foldedSegments # << >>

\* The index was set by the answer to a tool_result turn that went to the
\* substitute model without a retry.
C40_WitnessDirect ==
    /\ InSession /\ switch.pc = "returned" /\ switch.result = "passedThrough"
    /\ Len(switch.calls) = 1 /\ switch.calls[1].model = switch.mcpModel
    /\ SessionState.mcpStartIndex = Len(switch.requestData.messages)
    /\ SessionState.foldedSegments = << >>


(***************************************************************************)
(* Ledger cleanup.                                                         *)
(***************************************************************************)
\* The request replays the tool invocation id with a token of the client: on
\* the tool_use item itself, or pending from a reasoning item before it.
ReplayedWithClientToken(id) ==
    \E k \in DOMAIN Items :
        /\ Items[k].type = "tool_use" /\ Items[k].tool.id = id /\ id # 0
        /\ \/ Items[k].sig # NoSig
           \/ Forwarding /\ PendingBefore(k) # {}

\* A response is replayed in a request.
ReplayStep == mode \in {"stream", "search", "json"} /\ ~reqOut.done /\ reqOut'.done

C36_Step ==
    ReplayStep =>
        \A id \in DOMAIN toolThoughtSignatures \cup DOMAIN toolThoughtSignatures' :
            IF ReplayedWithClientToken(id)'
            THEN /\ id \notin DOMAIN toolThoughtSignatures'
                 /\ deleteToolThoughtSignature(toolThoughtSignatures', id)
                        = toolThoughtSignatures'
            ELSE /\ id \in DOMAIN toolThoughtSignatures
                 /\ id \in DOMAIN toolThoughtSignatures'
                 /\ toolThoughtSignatures'[id] = toolThoughtSignatures[id]

\* C36: after a request that replays the native tool invocation T with a token
\* of the client, on the item or pending from the reasoning item before it,
\* the ledger has no entry for T; the entries of the other ids are as they
\* were, and deleting T once more changes nothing.
C36_LedgerCleanup == [][C36_Step]_vars

\* A replay that echoed the token of a remembered invocation: its entry is
\* gone.
C36_Witness ==
    /\ Replayed
    /\ \E k \in DOMAIN Items :
         /\ Items[k].type = "tool_use" /\ Items[k].sig # NoSig
         /\ Items[k].tool.id \notin DOMAIN toolThoughtSignatures

\* A replay after which the entry of one invocation is gone and the entry of
\* another one is kept.
C36_WitnessOther ==
    /\ Replayed /\ toolThoughtSignatures # EmptyLedger
    /\ \E k \in DOMAIN Items :
         /\ ReplayedWithClientToken(Items[k].tool.id)
         /\ \E b \in DOMAIN OutBlocks :
              /\ OutBlocks[b].type = "tool_use" /\ OutBlocks[b].tool.id = Items[k].tool.id
              /\ OutBlocks[b].sig # NoSig

\* A replay whose reasoning token was pending before an invocation that was
\* remembered and not echoed: its entry is gone.
C36_WitnessPending ==
    /\ Replayed /\ Forwarding
    /\ \E k \in DOMAIN Items, b \in DOMAIN OutBlocks :
         /\ Items[k].type = "tool_use" /\ Items[k].sig = NoSig
         /\ PendingBefore(k) # {}
         /\ OutBlocks[b].type = "tool_use" /\ OutBlocks[b].tool.id = Items[k].tool.id
         /\ OutBlocks[b].sig # NoSig
         /\ Items[k].tool.id \notin DOMAIN toolThoughtSignatures

\* A replay of an invocation that had no entry, with a token pending: the
\* ledger is as it was.
C36_WitnessNoEntry ==
    /\ Replayed /\ Forwarding
    /\ \E k \in DOMAIN Items, b \in DOMAIN OutBlocks :
         /\ Items[k].type = "tool_use" /\ PendingBefore(k) # {}
         /\ OutBlocks[b].type = "tool_use" /\ OutBlocks[b].tool.id = Items[k].tool.id
         /\ OutBlocks[b].sig = NoSig


(***************************************************************************)
(* Concurrent requests.  handleMessages is an async function: between two  *)
(* awaits (callV1Internal, transformClaudeResponseOut, readStreamToString, *)
(* the retry's callV1Internal) it runs alone, and at an await another      *)
(* request may run.  The requests share sessionMcpState and the ledger.    *)
(* In this mode switch is [sessionMcpState, mcpModel, envMap, handled,     *)
(* tasks], with one record per request task.                               *)
(***************************************************************************)
Tasks == {1, 2}

MaxHandled == 2      \* requests handled in all

\* metadata.user_id as a sequence of characters; << >> when there is none.
UserIds == { << >>, <<" ">>, <<"s">>, <<" ", "s">>, <<"t">> }

\* id.trim()
RECURSIVE trimmedId(_)
trimmedId(id) ==
    IF id = << >> THEN id
    ELSE IF Head(id) = " " THEN trimmedId(Tail(id))
    ELSE IF id[Len(id)] = " " THEN trimmedId(SubSeq(id, 1, Len(id) - 1))
    ELSE id

\* getSessionId: the trimmed user_id as the key of the session map, "" for
\* null.
getSessionId(userId) ==
    IF trimmedId(userId) = << >> THEN ""
    ELSE IF trimmedId(userId) = <<"s">> THEN "s" ELSE "t"

\* The shapes of a request: the first task, streamed or not; the result of a
\* call of the bridged tool; the next task after an answer.
ConcurrentShapes ==
    { [stream |-> TRUE, messages |-> <<TaskMessage>>],
      [stream |-> FALSE, messages |-> <<TaskMessage>>],
      [stream |-> TRUE,
       messages |-> <<TaskMessage,
                      AssistantMessage(<<Item("tool_use", <<9>>, NoSig, Tool(1, McpName), 0)>>),
                      [role |-> "user", isString |-> FALSE, text |-> EmptyText,
                       content |-> <<Item("tool_result", <<8>>, NoSig, Tool(1, NoName), 0)>>]>>],
      [stream |-> TRUE,
       messages |-> <<TaskMessage,
                      AssistantMessage(<<Item("text", <<5>>, NoSig, NoTool, 0)>>),
                      TaskMessage>>] }

ConcurrentRequests ==
    { RequestData(shape.stream, ClaudeSonnet, SessionSystem, SessionTools, shape.messages,
                  getSessionId(userId)) :
        shape \in ConcurrentShapes, userId \in UserIds }

\* The session maps that earlier requests left: none, or session "s" with an
\* open segment.
ConcurrentSessions ==
    { NoSessions,
      [id \in {"s"} |-> [lastFamily |-> "gemini", mcpStartIndex |-> 1,
                         foldedSegments |-> << >>]] }

IdleTask ==
    [pc |-> "idle", requestData |-> RequestData(FALSE, NoName, << >>, << >>, << >>, ""),
     baseModel |-> NoName, modelForQuota |-> NoName, upstreamMessages |-> << >>,
     signatureSegmentStartIndex |-> -1, shouldBufferForSwitch |-> FALSE,
     result |-> "none"]

ConcurrentInit ==
    /\ mode = "concurrent"
    /\ state = NewStreamingState
    /\ inParts = << >>
    /\ nLines = 0
    /\ lastLine = "none"
    /\ toolThoughtSignatures = EmptyLedger
    /\ nsResult = NoResult
    /\ reqIn = NoReq
    /\ reqOut = NoReq
    /\ parser = NoParser
    /\ \E mcpModel \in McpModels, sessions \in ConcurrentSessions :
         switch = [sessionMcpState |-> sessions, mcpModel |-> mcpModel, envMap |-> {},
                   handled |-> 0, tasks |-> [t \in Tasks |-> IdleTask]]

\* The task t goes on as task, with the session map and the ledger as given.
Resumed(t, task, sessionMcpState, handled, ledger) ==
    Exchanged([switch EXCEPT !.tasks[t] = task, !.sessionMcpState = sessionMcpState,
                             !.handled = handled],
              ledger)

\* The record that updatedSessions and committedSessions read.
TaskExchange(t) ==
    [requestData |-> switch.tasks[t].requestData,
     sessionMcpState |-> switch.sessionMcpState,
     baseModel |-> switch.tasks[t].baseModel,
     modelForQuota |-> switch.tasks[t].modelForQuota,
     mcpModel |-> switch.mcpModel, envMap |-> switch.envMap]

\* handleMessages up to the await of callV1Internal: prepareMcpContext and
\* the buildBody of the call.
TaskCalled(t, requestData, context) ==
    Resumed(t,
            [pc |-> "upstream", requestData |-> requestData,
             baseModel |-> context.baseModel, modelForQuota |-> context.modelForQuota,
             upstreamMessages |-> context.upstreamMessages,
             signatureSegmentStartIndex |-> context.signatureSegmentStartIndex,
             shouldBufferForSwitch |-> context.shouldBufferForSwitch,
             result |-> "none"],
            context.sessionMcpState, switch.handled + 1,
            transformClaudeRequestIn(toolThoughtSignatures,
                Request(context.upstreamMessages, TRUE, context.signatureSegmentStartIndex,
                        FALSE)).ledger)

TaskHandles(t) ==
    /\ mode = "concurrent" /\ switch.tasks[t].pc \in {"idle", "returned"}
    /\ switch.handled < MaxHandled
    /\ \E requestData \in ConcurrentRequests :
         TaskCalled(t, requestData,
                    contextOf(requestData, switch.sessionMcpState, switch.mcpModel,
                              switch.envMap))

\* The backend answers task t: an error is returned, a success is awaited
\* from transformClaudeResponseOut.
TaskAnswered(t) ==
    /\ mode = "concurrent" /\ switch.tasks[t].pc = "upstream"
    /\ \/ Resumed(t, [switch.tasks[t] EXCEPT !.pc = "converted"], switch.sessionMcpState,
                  switch.handled, toolThoughtSignatures)
       \/ Resumed(t, [switch.tasks[t] EXCEPT !.pc = "returned", !.result = "upstreamError"],
                  switch.sessionMcpState, switch.handled, toolThoughtSignatures)

\* Task t after readStreamToString: the retry is called when the stream holds
\* the signal, else updateSessionAfterResponse runs and the text is replayed.
TaskBuffered(t, text) ==
    IF hasMcpSwitchSignal(parseEvents(text))
    THEN Resumed(t, [switch.tasks[t] EXCEPT !.pc = "retry"], switch.sessionMcpState,
                 switch.handled,
                 transformClaudeRequestIn(toolThoughtSignatures,
                     Request(switch.tasks[t].requestData.messages, TRUE,
                             retryStart(switch.tasks[t].requestData), FALSE)).ledger)
    ELSE Resumed(t, [switch.tasks[t] EXCEPT !.pc = "returned", !.result = "replayed"],
                 updatedSessions(TaskExchange(t)), switch.handled, toolThoughtSignatures)

\* Task t after transformClaudeResponseOut.
TaskConverted(t) ==
    /\ mode = "concurrent" /\ switch.tasks[t].pc = "converted"
    /\ IF switch.mcpModel # NoName /\ switch.tasks[t].shouldBufferForSwitch
       THEN \E events \in SessionStreams :
                TaskBuffered(t, readStreamToString(chunksOf(events), << >>))
       ELSE Resumed(t, [switch.tasks[t] EXCEPT !.pc = "returned", !.result = "passedThrough"],
                    IF switch.mcpModel # NoName THEN updatedSessions(TaskExchange(t))
                    ELSE switch.sessionMcpState,
                    switch.handled, toolThoughtSignatures)

\* The retry of task t answers: a success commits the session to the
\* substitute model, an error is returned.
TaskRetryAnswered(t) ==
    /\ mode = "concurrent" /\ switch.tasks[t].pc = "retry"
    /\ \/ Resumed(t, [switch.tasks[t] EXCEPT !.pc = "returned", !.result = "retried"],
                  committedSessions(TaskExchange(t)), switch.handled,
                  toolThoughtSignatures)
       \/ Resumed(t, [switch.tasks[t] EXCEPT !.pc = "returned", !.result = "retryError"],
                  switch.sessionMcpState, switch.handled, toolThoughtSignatures)

Handles == \E t \in Tasks : TaskHandles(t)
Answered == \E t \in Tasks : TaskAnswered(t)
Converts == \E t \in Tasks : TaskConverted(t)
RetryAnswers == \E t \in Tasks : TaskRetryAnswered(t)

ConcurrentNext ==
    \/ Handles
    \/ Answered
    \/ Converts
    \/ RetryAnswers

ConcurrentSpec == ConcurrentInit /\ [][ConcurrentNext]_vars


(***************************************************************************)
(* Session isolation.                                                      *)
(***************************************************************************)
\* The session map with the entry of id only.
OnlySession(sessionMcpState, id) ==
    [k \in DOMAIN sessionMcpState \cap {id} |-> sessionMcpState[k]]

\* Task t takes the step.
Acts(t) == switch'.tasks[t] # switch.tasks[t]

OwnSession(t) == switch'.tasks[t].requestData.sessionId

\* The step leaves the sessions of other ids as they are, and all of them when
\* the request has no session id.
ModifiesOwnSessionOnly(t) ==
    /\ \A id \in (DOMAIN switch.sessionMcpState \cup DOMAIN switch'.sessionMcpState)
                    \ {OwnSession(t)} :
         /\ id \in DOMAIN switch.sessionMcpState
         /\ id \in DOMAIN switch'.sessionMcpState
         /\ switch'.sessionMcpState[id] = switch.sessionMcpState[id]
    /\ OwnSession(t) = "" => switch'.sessionMcpState = switch.sessionMcpState

\* A session enters the map when a request of the session is prepared, with
\* nothing set.
CreatesLazily(t) ==
    (OwnSession(t) \in DOMAIN switch'.sessionMcpState \ DOMAIN switch.sessionMcpState) =>
        /\ switch'.tasks[t].pc = "upstream"
        /\ switch.mcpModel # NoName
        /\ switch'.sessionMcpState[OwnSession(t)] = NewSessionState

\* The record of task t and the entry of its session after the step, computed
\* from the session map sessions.
OutcomeFrom(t, sessions) ==
    IF switch'.tasks[t].pc = "upstream"
    THEN contextOf(switch'.tasks[t].requestData, sessions, switch.mcpModel, switch.envMap)
    ELSE [baseModel |-> switch.tasks[t].baseModel,
          modelForQuota |-> switch.tasks[t].modelForQuota,
          upstreamMessages |-> switch.tasks[t].upstreamMessages,
          signatureSegmentStartIndex |-> switch.tasks[t].signatureSegmentStartIndex,
          shouldBufferForSwitch |-> switch.tasks[t].shouldBufferForSwitch,
          sessionMcpState |->
              IF switch.mcpModel = NoName THEN sessions
              ELSE IF switch'.tasks[t].result \in {"replayed", "passedThrough"}
              THEN updatedSessions([TaskExchange(t) EXCEPT !.sessionMcpState = sessions])
              ELSE IF switch'.tasks[t].result = "retried"
              THEN committedSessions([TaskExchange(t) EXCEPT !.sessionMcpState = sessions])
              ELSE sessions]

\* What the step decides and writes is what it would with the entry of its own
\* session alone in the map.
ReadsOwnSessionOnly(t) ==
    /\ switch'.tasks[t].baseModel
           = OutcomeFrom(t, OnlySession(switch.sessionMcpState, OwnSession(t))).baseModel
    /\ switch'.tasks[t].modelForQuota
           = OutcomeFrom(t, OnlySession(switch.sessionMcpState, OwnSession(t))).modelForQuota
    /\ switch'.tasks[t].upstreamMessages
           = OutcomeFrom(t, OnlySession(switch.sessionMcpState, OwnSession(t))).upstreamMessages
    /\ switch'.tasks[t].signatureSegmentStartIndex
           = OutcomeFrom(t, OnlySession(switch.sessionMcpState, OwnSession(t)))
                 .signatureSegmentStartIndex
    /\ switch'.tasks[t].shouldBufferForSwitch
           = OutcomeFrom(t, OnlySession(switch.sessionMcpState, OwnSession(t)))
                 .shouldBufferForSwitch
    /\ OnlySession(switch'.sessionMcpState, OwnSession(t))
           = OnlySession(OutcomeFrom(t, OnlySession(switch.sessionMcpState, OwnSession(t)))
                             .sessionMcpState,
                         OwnSession(t))

C39_Step ==
    mode = "concurrent" =>
        \A t \in Tasks :
            Acts(t) => ModifiesOwnSessionOnly(t) /\ CreatesLazily(t) /\ ReadsOwnSessionOnly(t)

\* C39: whatever the interleaving of the requests at their awaits, a step of a
\* request changes no session but the one of its own session id and decides
\* from that one alone; a request without session id changes no session and
\* creates none; a session enters the map when its first request is prepared,
\* with lastFamily and segment start unset and no folded segments.
C39_SessionIsolation == [][C39_Step]_vars

\* Two requests of the sessions "s" and "t" are in flight: the retry of the
\* first has opened a segment for "s" while the second awaits its retry, and
\* the session "t" is as it was created.
C39_Witness ==
    /\ mode = "concurrent"
    /\ switch.tasks[1].requestData.sessionId = "s" /\ switch.tasks[1].result = "retried"
    /\ switch.tasks[2].requestData.sessionId = "t" /\ switch.tasks[2].pc = "retry"
    /\ DOMAIN switch.sessionMcpState = {"s", "t"}
    /\ switch.sessionMcpState["s"].mcpStartIndex = 1
    /\ switch.sessionMcpState["t"] = NewSessionState

\* A request without session id is answered while a request of session "s" is
\* in flight: the map holds the session "s" only.
C39_WitnessNoSession ==
    /\ mode = "concurrent" /\ switch.mcpModel # NoName
    /\ switch.tasks[1].requestData.sessionId = "" /\ switch.tasks[1].result = "retried"
    /\ switch.tasks[2].requestData.sessionId = "s" /\ switch.tasks[2].pc = "converted"
    /\ DOMAIN switch.sessionMcpState = {"s"}


(***************************************************************************)
(* The schema sanitizer: cleanJsonSchema of src/unnamed/part_002, the one  *)
(* that takes the uppercaseTypes option.                                   *)
(*                                                                         *)
(* A JSON value is a record [kind, text, entries]: kind is "null", "bool", *)
(* "num", "str", "arr" or "obj" ("undefined" for a member that is not      *)
(* there); text is an atom's text as a sequence of words (the empty string *)
(* is << >>); entries are the items of an array (key "") or the members of *)
(* an object in insertion order, as [key, value].                          *)
(***************************************************************************)
MaxDepth == 1        \* nesting of the schemas sanitized

Json(kind, text, entries) == [kind |-> kind, text |-> text, entries |-> entries]

Entry(key, value) == [key |-> key, value |-> value]

Undefined == Json("undefined", << >>, << >>)

JsonNull == Json("null", <<"null">>, << >>)

JsonTrue == Json("bool", <<"true">>, << >>)

Str(words) == Json("str", words, << >>)

Num(digits) == Json("num", <<digits>>, << >>)

Arr(items) == Json("arr", << >>, [i \in 1..Len(items) |-> Entry("", items[i])])

Obj(entries) == Json("obj", << >>, entries)

itemsOf(array) == [i \in 1..Len(array.entries) |-> array.entries[i].value]

hasKey(entries, key) == \E i \in 1..Len(entries) : entries[i].key = key

getKey(entries, key) ==
    IF hasKey(entries, key)
    THEN entries[CHOOSE i \in 1..Len(entries) : entries[i].key = key].value
    ELSE Undefined

\* obj[key] = value: a member that is there keeps its place.
setKey(entries, key, value) ==
    IF hasKey(entries, key)
    THEN [i \in 1..Len(entries) |->
            IF entries[i].key = key THEN Entry(key, value) ELSE entries[i]]
    ELSE Append(entries, Entry(key, value))

\* typeof v === "object" && v !== null
isObject(v) == v.kind \in {"arr", "obj"}

isArray(v) == v.kind = "arr"

truthy(v) ==
    ~ \/ v.kind \in {"undefined", "null"}
      \/ v.kind = "bool" /\ v.text = <<"false">>
      \/ v.kind = "num" /\ v.text = <<"0">>
      \/ v.kind = "str" /\ v.text = << >>

\* String.prototype.toUpperCase on the words of the model.
toUpperCase(word) ==
    CASE word = "string" -> "STRING"
      [] word = "number" -> "NUMBER"
      [] word = "null" -> "NULL"
      [] word = "object" -> "OBJECT"
      [] word = "array" -> "ARRAY"
      [] word = "boolean" -> "BOOLEAN"
      [] word = "a" -> "A"
      [] word = "b" -> "B"
      [] word = "d" -> "D"
      [] OTHER -> word

upperText(text) == [i \in 1..Len(text) |-> toUpperCase(text[i])]

RECURSIVE toText(_)
RECURSIVE joinItems(_, _)
\* items.join(","): null and undefined items give nothing.
joinItems(items, i) ==
    IF i > Len(items) THEN << >>
    ELSE (IF i > 1 THEN <<",">> ELSE << >>)
         \o (IF items[i].kind \in {"null", "undefined"} THEN << >> ELSE toText(items[i]))
         \o joinItems(items, i + 1)

\* `${v}`
toText(v) ==
    IF v.kind = "obj" THEN <<"[object Object]">>
    ELSE IF v.kind = "arr" THEN joinItems(itemsOf(v), 1)
    ELSE IF v.kind = "undefined" THEN <<"undefined">>
    ELSE v.text

inferType(val) ==
    IF val.kind = "null" THEN "null"
    ELSE IF val.kind = "arr" THEN "array"
    ELSE IF val.kind = "obj" THEN "object"
    ELSE IF val.kind = "str" THEN "string"
    ELSE IF val.kind = "num" THEN "number"
    ELSE IF val.kind = "bool" THEN "boolean"
    ELSE "undefined"

isSimpleEnum(s) ==
    /\ s.kind = "obj"
    /\ isArray(getKey(s.entries, "enum"))
    /\ \A i \in 1..Len(s.entries) : s.entries[i].key \in {"enum", "type"}

RECURSIVE uppercaseSchemaTypes(_)
uppercasedType(value) ==
    IF value.kind = "str" THEN Str(upperText(value.text))
    ELSE IF isArray(value)
    THEN Json("arr", << >>,
              [i \in 1..Len(value.entries) |->
                  IF value.entries[i].value.kind = "str"
                  THEN Entry("", Str(upperText(value.entries[i].value.text)))
                  ELSE value.entries[i]])
    ELSE value

uppercaseSchemaTypes(schema) ==
    IF ~ isObject(schema) THEN schema
    ELSE IF isArray(schema)
    THEN Json("arr", << >>,
              [i \in 1..Len(schema.entries) |->
                  Entry("", uppercaseSchemaTypes(schema.entries[i].value))])
    ELSE Obj([i \in 1..Len(schema.entries) |->
                IF schema.entries[i].key = "type"
                THEN Entry("type", uppercasedType(schema.entries[i].value))
                ELSE IF isObject(schema.entries[i].value)
                THEN Entry(schema.entries[i].key,
                           uppercaseSchemaTypes(schema.entries[i].value))
                ELSE schema.entries[i]])

validationFields ==
    <<"minLength", "maxLength", "minimum", "maximum", "exclusiveMinimum",
      "exclusiveMaximum", "minItems", "maxItems">>

ValidationKeys == { validationFields[i] : i \in 1..Len(validationFields) }

removeKeys ==
    {"$schema", "additionalProperties", "default", "uniqueItems", "propertyNames",
     "patternProperties", "unevaluatedProperties"}

combinators == {"anyOf", "oneOf", "allOf"}

RECURSIVE validationsFrom(_, _)
\* The texts `${label}: ${schema[field]}` of the validation fields the schema
\* has, in the order of validationFields.
validationsFrom(schema, f) ==
    IF f > Len(validationFields) THEN << >>
    ELSE (IF hasKey(schema.entries, validationFields[f])
          THEN << <<validationFields[f], ": ">>
                    \o toText(getKey(schema.entries, validationFields[f])) >>
          ELSE << >>)
         \o validationsFrom(schema, f + 1)

RECURSIVE joinValidations(_, _)
\* validations.join(", ")
joinValidations(validations, i) ==
    IF i > Len(validations) THEN << >>
    ELSE (IF i > 1 THEN <<", ">> ELSE << >>) \o validations[i]
         \o joinValidations(validations, i + 1)

RECURSIVE unique(_, _)
\* Array.from(new Set(items)): atoms are one when they are the same value,
\* objects and arrays are one only when they are the same object, which two
\* items here never are.
unique(items, i) ==
    IF i > Len(items) THEN << >>
    ELSE IF ~ isObject(items[i]) /\ \E j \in 1..(i - 1) : items[j] = items[i]
    THEN unique(items, i + 1)
    ELSE <<items[i]>> \o unique(items, i + 1)

RECURSIVE flatEnums(_, _)
\* cleanedList.flatMap(s => s.enum)
flatEnums(cleanedList, i) ==
    IF i > Len(cleanedList) THEN << >>
    ELSE itemsOf(getKey(cleanedList[i].entries, "enum")) \o flatEnums(cleanedList, i + 1)

\* cleanedList.map(s => s.type).filter(Boolean)
typesOf(cleanedList) ==
    SelectSeq([i \in 1..Len(cleanedList) |-> getKey(cleanedList[i].entries, "type")], truthy)

\* The size of new Set(types).
typesSize(types) == Len(unique(types, 1))

\* anyOf and oneOf whose options all are enums of one type become the enum.
flattens(key, cleanedList) ==
    /\ key \in {"anyOf", "oneOf"}
    /\ Len(cleanedList) > 0
    /\ \A i \in 1..Len(cleanedList) : isSimpleEnum(cleanedList[i])
    /\ typesSize(typesOf(cleanedList)) <= 1

flattened(cleaned, cleanedList) ==
    IF typesSize(typesOf(cleanedList)) = 1
    THEN setKey(setKey(cleaned, "enum", Arr(unique(flatEnums(cleanedList, 1), 1))),
                "type", typesOf(cleanedList)[1])
    ELSE setKey(cleaned, "enum", Arr(unique(flatEnums(cleanedList, 1), 1)))

\* value.filter((v) => v !== "null")
notNull(v) == v # Str(<<"null">>)

\* filtered[0] || value[0] || "string"
unionType(value) ==
    IF Len(SelectSeq(itemsOf(value), notNull)) > 0
       /\ truthy(SelectSeq(itemsOf(value), notNull)[1])
    THEN SelectSeq(itemsOf(value), notNull)[1]
    ELSE IF Len(value.entries) > 0 /\ truthy(value.entries[1].value)
    THEN value.entries[1].value
    ELSE Str(<<"string">>)

normalizedUnion(cleaned, value) ==
    IF \E i \in 1..Len(value.entries) : value.entries[i].value = Str(<<"null">>)
    THEN setKey(setKey(cleaned, "type", unionType(value)), "nullable", JsonTrue)
    ELSE setKey(cleaned, "type", unionType(value))

RECURSIVE cleanJsonSchema(_, _)
RECURSIVE cleanMembers(_, _, _, _, _)

cleanedList(value, uppercaseTypes) ==
    [i \in 1..Len(value.entries) |-> cleanJsonSchema(value.entries[i].value, uppercaseTypes)]

cleanedProperties(value, uppercaseTypes) ==
    Obj([i \in 1..Len(value.entries) |->
            IF isObject(value.entries[i].value)
            THEN Entry(value.entries[i].key,
                       cleanJsonSchema(value.entries[i].value, uppercaseTypes))
            ELSE value.entries[i]])

\* One round of the loop over the members of the schema: acc holds cleaned and
\* constValue.
cleanMember(acc, key, value, validations, uppercaseTypes) ==
    IF key \in combinators
    THEN IF isArray(value)
         THEN IF flattens(key, cleanedList(value, uppercaseTypes))
              THEN [acc EXCEPT !.cleaned =
                                   flattened(@, cleanedList(value, uppercaseTypes))]
              ELSE [acc EXCEPT !.cleaned =
                                   setKey(@, key, Arr(cleanedList(value, uppercaseTypes)))]
         ELSE [acc EXCEPT !.cleaned = setKey(@, key, value)]
    ELSE IF key = "const"
    THEN [acc EXCEPT !.constValue = value]
    ELSE IF key \in removeKeys \/ key \in ValidationKeys
    THEN acc
    ELSE IF key = "properties" /\ value.kind = "obj"
    THEN [acc EXCEPT !.cleaned =
                         setKey(@, "properties", cleanedProperties(value, uppercaseTypes))]
    ELSE IF key = "type" /\ isArray(value)
    THEN [acc EXCEPT !.cleaned = normalizedUnion(@, value)]
    ELSE IF key = "description" /\ Len(validations) > 0
    THEN [acc EXCEPT !.cleaned =
                         setKey(@, key,
                                Str(toText(value) \o <<" (">>
                                    \o joinValidations(validations, 1) \o <<")">>))]
    ELSE IF isObject(value)
    THEN [acc EXCEPT !.cleaned = setKey(@, key, cleanJsonSchema(value, uppercaseTypes))]
    ELSE [acc EXCEPT !.cleaned = setKey(@, key, value)]

cleanMembers(schema, i, acc, validations, uppercaseTypes) ==
    IF i > Len(schema.entries) THEN acc
    ELSE cleanMembers(schema, i + 1,
                      cleanMember(acc, schema.entries[i].key, schema.entries[i].value,
                                  validations, uppercaseTypes),
                      validations, uppercaseTypes)

\* if (!cleaned.enum) cleaned.enum = []; cleaned.enum.push(constValue): the
\* value goes to the end of enum as it is. (With an enum that is no array the
\* push throws; the schemas sanitized here have none.)
pushedConst(acc) ==
    setKey(acc.cleaned, "enum",
           Arr(Append(IF truthy(getKey(acc.cleaned, "enum"))
                      THEN itemsOf(getKey(acc.cleaned, "enum"))
                      ELSE << >>,
                      acc.constValue)))

\* if (constValue !== undefined) { ... }: the value gives the type when there
\* is none.
withConst(acc) ==
    IF acc.constValue = Undefined THEN acc.cleaned
    ELSE IF truthy(getKey(acc.cleaned, "type")) THEN pushedConst(acc)
    ELSE setKey(pushedConst(acc), "type", Str(<<inferType(acc.constValue)>>))

\* if (cleaned.enum && cleaned.enum.length > 1) cleaned.enum = Array.from(new Set(...))
withUniqueEnum(cleaned) ==
    IF truthy(getKey(cleaned, "enum")) /\ Len(getKey(cleaned, "enum").entries) > 1
    THEN setKey(cleaned, "enum", Arr(unique(itemsOf(getKey(cleaned, "enum")), 1)))
    ELSE cleaned

withValidations(cleaned, validations) ==
    IF Len(validations) > 0 /\ ~ truthy(getKey(cleaned, "description"))
    THEN setKey(cleaned, "description",
                Str(<<"Validation: ">> \o joinValidations(validations, 1)))
    ELSE cleaned

NoConst == [cleaned |-> << >>, constValue |-> Undefined]

cleanJsonSchema(schema, uppercaseTypes) ==
    IF ~ isObject(schema) THEN schema
    ELSE IF isArray(schema)
    THEN Json("arr", << >>,
              [i \in 1..Len(schema.entries) |->
                  Entry("", cleanJsonSchema(schema.entries[i].value, uppercaseTypes))])
    ELSE IF uppercaseTypes
    THEN uppercaseSchemaTypes(
             Obj(withValidations(
                     withUniqueEnum(
                         withConst(cleanMembers(schema, 1, NoConst,
                                                validationsFrom(schema, 1),
                                                uppercaseTypes))),
                     validationsFrom(schema, 1))))
    ELSE Obj(withValidations(
                 withUniqueEnum(
                     withConst(cleanMembers(schema, 1, NoConst, validationsFrom(schema, 1),
                                            uppercaseTypes))),
                 validationsFrom(schema, 1)))


(***************************************************************************)
(* The schemas sanitized.                                                  *)
(***************************************************************************)
TypeOf(word) == Entry("type", Str(<<word>>))

\* Schemas without a schema inside.
LeafSchemas ==
    { Obj(<<TypeOf("string")>>),
      Obj(<<TypeOf("STRING")>>),
      Obj(<<Entry("type", Arr(<<Str(<<"string">>), Str(<<"null">>)>>))>>),
      Obj(<<Entry("const", Str(<<"a">>))>>),
      Obj(<<Entry("enum", Arr(<<Str(<<"a">>)>>)), TypeOf("string")>>),
      Obj(<<Entry("enum", Arr(<<Str(<<"b">>), Str(<<"a">>)>>))>>),
      Obj(<<TypeOf("string"), Entry("description", Str(<<"d">>)), Entry("minLength", Num("1"))>>),
      Obj(<<TypeOf("number"), Entry("minimum", Num("0")), Entry("maximum", Num("1"))>>),
      Obj(<<TypeOf("string"), Entry("default", Str(<<"a">>))>>),
      Obj(<<Entry("default", Num("1"))>>),
      Obj(<<Entry("enum", Arr(<<Str(<<"a">>)>>)), Entry("const", Str(<<"b">>))>>) }

\* The schemas that hold the schema c, and the leaf l beside it where two are
\* held.
Holding(c, l) ==
    { Obj(<<TypeOf("object"), Entry("properties", Obj(<<Entry("p", c)>>))>>),
      Obj(<<Entry("properties", Obj(<<Entry("type", c), Entry("default", l)>>))>>),
      Obj(<<TypeOf("array"), Entry("items", c)>>),
      Obj(<<Entry("description", Str(<<"d">>)), Entry("maxItems", Num("1")),
            Entry("items", c)>>),
      Obj(<<Entry("anyOf", Arr(<<c, l>>))>>),
      Obj(<<Entry("oneOf", Arr(<<l, c>>)), TypeOf("number")>>),
      Obj(<<Entry("allOf", Arr(<<c>>))>>),
      Obj(<<Entry("enum", Arr(<<c>>))>>),
      Obj(<<Entry("const", c)>>) }

RECURSIVE Schemas(_)
Schemas(depth) ==
    IF depth = 0 THEN LeafSchemas
    ELSE Schemas(depth - 1)
         \cup UNION { Holding(c, l) : c \in Schemas(depth - 1), l \in LeafSchemas }

NoSchema == [pc |-> "none"]

SchemaInit ==
    /\ mode = "schema"
    /\ state = NewStreamingState
    /\ inParts = << >>
    /\ nLines = 0
    /\ lastLine = "none"
    /\ toolThoughtSignatures = EmptyLedger
    /\ nsResult = NoResult
    /\ reqIn = NoReq
    /\ reqOut = NoReq
    /\ switch = NoSwitch
    /\ \E schema \in Schemas(MaxDepth), uppercaseTypes \in BOOLEAN :
         parser = [pc |-> "given", schema |-> schema, uppercaseTypes |-> uppercaseTypes,
                   cleaned |-> Undefined, again |-> Undefined]

\* cleanJsonSchema(tool.input_schema, { uppercaseTypes })
Sanitize ==
    /\ mode = "schema" /\ parser.pc = "given"
    /\ parser' = [parser EXCEPT !.pc = "cleaned",
                                !.cleaned = cleanJsonSchema(parser.schema,
                                                            parser.uppercaseTypes)]
    /\ UNCHANGED <<mode, state, inParts, nLines, lastLine, toolThoughtSignatures, nsResult,
                   reqIn, reqOut, switch>>

\* The sanitizer on what it gave, with the same option.
SanitizeAgain ==
    /\ mode = "schema" /\ parser.pc = "cleaned"
    /\ parser' = [parser EXCEPT !.pc = "cleanedAgain",
                                !.again = cleanJsonSchema(parser.cleaned,
                                                          parser.uppercaseTypes)]
    /\ UNCHANGED <<mode, state, inParts, nLines, lastLine, toolThoughtSignatures, nsResult,
                   reqIn, reqOut, switch>>

SchemaNext == Sanitize \/ SanitizeAgain

SchemaSpec == SchemaInit /\ [][SchemaNext]_vars

(***************************************************************************)
(* Idempotence of the sanitizer.                                           *)
(***************************************************************************)
RECURSIVE Tree(_)
\* The value without the order of the members of its objects.
Tree(v) ==
    [kind |-> v.kind, text |-> v.text,
     items |-> IF v.kind = "arr" THEN [i \in 1..Len(v.entries) |-> Tree(v.entries[i].value)]
               ELSE << >>,
     members |-> IF v.kind = "obj"
                 THEN { <<v.entries[i].key, Tree(v.entries[i].value)>> :
                            i \in 1..Len(v.entries) }
                 ELSE {}]

SanitizedTwice == mode = "schema" /\ parser.pc = "cleanedAgain"

RECURSIVE HoldsObjectConst(_)
\* A const of the schema, at some depth, has an object or an array with an
\* object as its value.
HoldsObject(v) ==
    \/ v.kind = "obj"
    \/ v.kind = "arr" /\ \E i \in 1..Len(v.entries) : v.entries[i].value.kind = "obj"

HoldsObjectConst(v) ==
    \E i \in 1..Len(v.entries) :
        \/ v.kind = "obj" /\ v.entries[i].key = "const" /\ HoldsObject(v.entries[i].value)
        \/ HoldsObjectConst(v.entries[i].value)

\* C31: the sanitizer applied to its own output, with the same uppercaseTypes
\* option, gives that output again, up to the order of the members:
\* clean(clean(s)) = clean(s) for every schema s.
C31_SanitizerIdempotent ==
    SanitizedTwice => Tree(parser.again) = Tree(parser.cleaned)

\* The same for the schemas no const of which holds an object.
IdempotentWithoutObjectConst ==
    SanitizedTwice /\ ~ HoldsObjectConst(parser.schema) =>
        Tree(parser.again) = Tree(parser.cleaned)

\* { const: { default: 1 } }: the first pass gives enum [{ default: 1 }], the
\* second takes default out of the enum's value.
ObjectConstCleanedLater ==
    /\ SanitizedTwice
    /\ parser.schema = Obj(<<Entry("const", Obj(<<Entry("default", Num("1"))>>))>>)
    /\ getKey(parser.cleaned.entries, "enum") = Arr(<<Obj(<<Entry("default", Num("1"))>>)>>)
    /\ getKey(parser.again.entries, "enum") = Arr(<<Obj(<< >>)>>)

\* Validations went into the description, a const became an enum, a union
\* lost its null, and the second pass changed nothing.
SanitizedSchemaKept ==
    /\ SanitizedTwice /\ ~ HoldsObjectConst(parser.schema)
    /\ parser.cleaned # parser.schema
    /\ \E i \in 1..Len(parser.schema.entries) : parser.schema.entries[i].key = "anyOf"
    /\ parser.again = parser.cleaned

====
